---- MODULE Spec2Model ----
(***************************************************************************)
(* Model of the streaming mission-generation pipeline of                   *)
(* api/services/mission_planning.py: the retry_llm_call decorator, the     *)
(* three-phase generator generate_mission_plan and the Phase-3 inner       *)
(* generator _generate_detailed_mission_plan.                              *)
(*                                                                         *)
(* Delays are counted in tenths of a second (1.5 s = 15).  Progress values *)
(* are counted in 1/ProgressScale of a percent so that the interpolated    *)
(* values 30 + (k/n)*25 and 70 + (i/n)*20 are exact.                       *)
(***************************************************************************)
EXTENDS Integers, Sequences, FiniteSets, TLC

VARIABLES
    pc,                   \* position of generate_mission_plan
    request,              \* the MissionPlanRequest (immutable input)
    openrouter_key,       \* OPENROUTER_API_KEY is configured
    maps_key,             \* GOOGLE_MAPS_API_KEY is configured
    chunks,               \* StreamingChunks yielded to the consumer, in order
    sequence,             \* generate_mission_plan's local `sequence`
    inner_sequence,       \* _generate_detailed_mission_plan's local `sequence`
    w_pc,                 \* position of retry_llm_call's wrapper
    max_retries, base_delay, max_delay, backoff_factor,   \* decorator arguments
    attempt, delay, last_exception,                       \* wrapper locals
    calls,                \* invocations of the wrapped callable so far
    sleeps,               \* delays passed to asyncio.sleep, in order
    failures,             \* exceptions raised by the wrapped callable, in order
    raised,               \* exception that reached the caller (NoException if none)
    p3_calls,             \* stream_text calls made by Phase 3
    events,               \* upstream events consumed in the current stream
    accumulated_content,  \* content deltas accumulated in the current call
    structure_data,       \* Phase-1 result
    geocoded_locations,   \* Phase-2 location map, in insertion order
    loc_idx,              \* loop position in Phase 2 (key_locations, then the map)
    successful_geocodes,  \* generate_mission_plan's local of that name
    plan_data,            \* Phase-3 parsed payload
    wp_done,              \* waypoints converted so far in Phase 3
    stream_args,          \* arguments of the latest stream_text call
    mission_plan,         \* Phase 3's local `mission_plan`
    response,             \* what the consumer of the generator has produced
    extraction,           \* the extractor applied to a text on its own
    runs,                 \* two runs on the shared service, run by run
    upstream,             \* what the LLM streams and the geocoder were asked and delivered
    debug_manager         \* main.py's debug_manager, its sockets and broadcast tasks

vars == << pc, request, openrouter_key, maps_key, debug_manager,
           chunks, sequence, inner_sequence,
           w_pc, max_retries, base_delay, max_delay, backoff_factor,
           attempt, delay, last_exception, calls, sleeps, failures, raised,
           p3_calls, events, accumulated_content, structure_data,
           geocoded_locations, loc_idx, successful_geocodes, plan_data, wp_done,
           stream_args, mission_plan, response, extraction, runs, upstream >>

wrapperVars == << w_pc, max_retries, base_delay, max_delay, backoff_factor,
                  attempt, delay, last_exception, calls, sleeps, failures, raised >>

pipelineVars == << pc, request, openrouter_key, maps_key, debug_manager,
                   chunks, sequence,
                   inner_sequence, p3_calls, events, accumulated_content,
                   structure_data, geocoded_locations, loc_idx, successful_geocodes,
                   plan_data, wp_done, stream_args, mission_plan, response,
                   extraction, runs, upstream >>

----------------------------------------------------------------------------
(* Bounds of the model                                                     *)

MaxRetriesBound == 3     \* largest max_retries explored for the bare decorator
MaxBaseDelay == 4        \* largest base_delay explored for the bare decorator
MaxMaxDelay == 5         \* largest max_delay explored for the bare decorator
MaxBackoffFactor == 3    \* largest backoff_factor explored for the bare decorator
MaxEvents == 2           \* upstream events per LLM stream
MaxKeyLocations == 1     \* key_locations entries in a Phase-1 result
MaxAoi == 1              \* area_of_interest points in a request
MaxWaypoints == 1        \* waypoints in a Phase-3 payload

(* Program constants                                                       *)

P1MaxRetries == 5        \* @retry_llm_call(max_retries=5, ...)
P1BaseDelay == 15        \* @retry_llm_call(..., base_delay=1.5)
DefaultMaxDelay == 300   \* max_delay=30.0
DefaultBackoffFactor == 2 \* backoff_factor=2.0
ProgressScale == 3 * 4 * 5   \* progress unit: 1/60 percent

Min(a, b) == IF a <= b THEN a ELSE b

----------------------------------------------------------------------------
(* retry_llm_call                                                          *)

NoException == [kind |-> "None", msg |-> "", id |-> 0]

Exc(kind, msg, id) == [kind |-> kind, msg |-> msg, id |-> id]

\* `except json.JSONDecodeError` is tried first; `except Exception` takes the rest
\* (ValueError is a base class of JSONDecodeError, not a subclass).
IsJSONDecodeError(e) == e.kind = "JSONDecodeError"

\* Faulty variant: no separate limit for failures that are no parse failures.
NonParseRetryLimitFull(M) == M

\* min(2, max_retries)
NonParseRetryLimit(M) == Min(2, M)

\* Faulty variant: `attempt <= max_retries` in the parse-failure clause.
RetryAllowedOneMore(e, att, M) ==
    IF e.kind = "JSONDecodeError" THEN att <= M ELSE att < Min(2, M)


\* The two `if attempt < ...` tests of the wrapper.
RetryAllowed(e, att, M) ==
    IF IsJSONDecodeError(e) THEN att < M ELSE att < NonParseRetryLimit(M)

\* delay = base_delay
InitialDelay(base, mx) == base

\* delay = min(delay * backoff_factor, max_delay)
NextDelay(d, f, mx) == Min(d * f, mx)

\* The wrapper's state on entry: last_exception = None, delay = base_delay, attempt 0.
WrapperEnter(M, base, mx, f) ==
    /\ max_retries = M /\ base_delay = base /\ max_delay = mx /\ backoff_factor = f
    /\ w_pc = "call"
    /\ attempt = 0
    /\ delay = InitialDelay(base, mx)
    /\ last_exception = NoException
    /\ calls = 0
    /\ sleeps = << >>
    /\ failures = << >>
    /\ raised = NoException

\* Faulty variant: the result is kept and the loop goes on; it is returned when the
\* range is used up.
WrapperReturnAfterLoop ==
    /\ w_pc' = IF attempt < max_retries THEN "call" ELSE "returned"
    /\ attempt' = IF attempt < max_retries THEN attempt + 1 ELSE attempt
    /\ UNCHANGED << max_retries, base_delay, max_delay, backoff_factor,
                    delay, last_exception, sleeps, failures, raised >>

\* The wrapped callable returned: `return await func(...)`.
WrapperReturn ==
    /\ w_pc' = "returned"
    /\ attempt' = attempt
    /\ UNCHANGED << max_retries, base_delay, max_delay, backoff_factor,
                    delay, last_exception, sleeps, failures, raised >>

\* The wrapped callable raised e: the two except clauses.  A retry goes to the
\* sleep; a JSONDecodeError on the last attempt falls out of the loop to
\* `raise last_exception`; any other failure past its limit is `raise e`.
WrapperCatch(e) ==
    /\ failures' = Append(failures, e)
    /\ IF RetryAllowed(e, attempt, max_retries)
         THEN /\ last_exception' = e
              /\ w_pc' = "sleep"
              /\ UNCHANGED raised
         ELSE /\ last_exception' = IF IsJSONDecodeError(e) THEN e ELSE last_exception
              /\ raised' = IF IsJSONDecodeError(e) THEN last_exception' ELSE e
              /\ w_pc' = "raised"
    /\ UNCHANGED << max_retries, base_delay, max_delay, backoff_factor,
                    attempt, delay, sleeps >>

\* await asyncio.sleep(delay); delay = min(...); then the next iteration of
\* `for attempt in range(max_retries + 1)`, or `raise last_exception` when the
\* range is used up.
WrapperSleep ==
    /\ w_pc = "sleep"
    /\ sleeps' = Append(sleeps, delay)
    /\ delay' = NextDelay(delay, backoff_factor, max_delay)
    /\ IF attempt + 1 <= max_retries
         THEN /\ attempt' = attempt + 1
              /\ w_pc' = "call"
              /\ UNCHANGED raised
         ELSE /\ w_pc' = "raised"
              /\ raised' = last_exception
              /\ UNCHANGED attempt
    /\ UNCHANGED << max_retries, base_delay, max_delay, backoff_factor,
                    last_exception, calls, failures >>
    /\ UNCHANGED pipelineVars

----------------------------------------------------------------------------
(* The decorator around an arbitrary callable                              *)

NoStructure == [sized |-> TRUE, key_locations |-> << >>]

NoPlanData == [has_waypoints |-> FALSE, waypoints |-> << >>, has_fields |-> FALSE]

\* request.model is None
NoModel == ""

\* No stream_text call made yet
NoCall == [phase |-> 0, model |-> NoModel, prompt_locations |-> << >>,
           response_schema |-> FALSE, include_reasoning |-> FALSE]

\* mission_plan before MissionPlan(...) is built
NoMissionPlan == [built |-> FALSE, waypoints |-> << >>, generated_by |-> "",
                  geocoded_locations |-> << >>]

\* The consumer has produced nothing yet
NoResponse == [kind |-> "none", success |-> FALSE, has_plan |-> FALSE]

\* The extractor has not been applied
NotRun == [kind |-> "none", msg |-> "", text |-> << >>]

NoExtraction == [embedded |-> << >>, phase1 |-> NotRun, phase3 |-> NotRun]

NoRuns == << >>

\* Nothing asked of the geocoder or delivered by an LLM stream yet.  `lookups` logs
\* the geocode_location calls of the run; `events` and `parsed` log the events
\* consumed and the texts handed to the parser in the latest stream_text call, and
\* are kept only where `trace` is set; `provider` is how the geocoding provider will
\* answer, where geocode_location is looked at on its own.
NoUpstream ==
    [trace |-> FALSE, lookups |-> << >>, events |-> << >>, parsed |-> << >>,
     provider |-> << >>]

\* The variables outside the pipeline's own frames, at rest
RestOfStateIdle ==
    /\ stream_args = NoCall
    /\ mission_plan = NoMissionPlan
    /\ response = NoResponse
    /\ extraction = NoExtraction
    /\ runs = NoRuns
    /\ upstream = NoUpstream

MaxSockets == 2          \* debug WebSocket clients

Sockets == 1..MaxSockets

\* Two broadcast_debug tasks scheduled by debug_print, each with create_task
Broadcasts == {1, 2}

\* A broadcast_debug task that has not run yet
NewBroadcast ==
    [pc |-> "scheduled", snapshot |-> {}, size |-> 0, visited |-> {}, cur |-> 0,
     disconnected |-> {}]

\* debug_manager = DebugConnectionManager(): no connection; no client has called
\* /ws/debug and no broadcast has started
NewDebugManager ==
    [active_connections |-> {},
     sockets |-> [s \in Sockets |-> "new"],
     broadcasts |-> [b \in Broadcasts |-> NewBroadcast]]

CallableOutcomes == {"ok", "JSONDecodeError", "Exception"}

IdlePipeline ==
    /\ pc = "none"
    /\ request = [include_reasoning |-> FALSE, start_position |-> FALSE,
                  area_of_interest |-> 0, model |-> NoModel]
    /\ openrouter_key = TRUE
    /\ debug_manager = NewDebugManager
    /\ maps_key = TRUE
    /\ chunks = << >>
    /\ sequence = 0
    /\ inner_sequence = 0
    /\ p3_calls = 0
    /\ events = 0
    /\ accumulated_content = << >>
    /\ structure_data = NoStructure
    /\ geocoded_locations = << >>
    /\ loc_idx = 0
    /\ successful_geocodes = 0
    /\ plan_data = NoPlanData
    /\ wp_done = 0
    /\ RestOfStateIdle

RetryInit ==
    /\ IdlePipeline
    /\ \E M \in 0..MaxRetriesBound, base \in 1..MaxBaseDelay,
          mx \in 1..MaxMaxDelay, f \in 1..MaxBackoffFactor :
          WrapperEnter(M, base, mx, f)

\* One iteration of the for loop: await func(*args, **kwargs) and its outcome.
RetryInvoke ==
    /\ w_pc = "call"
    /\ calls' = calls + 1
    /\ \E o \in CallableOutcomes :
          IF o = "ok" THEN WrapperReturn ELSE WrapperCatch(Exc(o, "", calls'))
    /\ UNCHANGED pipelineVars

RetryNext == RetryInvoke \/ WrapperSleep

RetrySpec == RetryInit /\ [][RetryNext]_vars

----------------------------------------------------------------------------
(* LLM output text and its JSON reading                                    *)
(*                                                                         *)
(* A text is a sequence of tokens: "{" and "}" are the brace characters,   *)
(* "k" is a quoted key with its colon, "v" is a scalar value and "p" is a  *)
(* character of prose.                                                     *)

ContentDeltas == { << >>, <<"p">>, <<"{">>, <<"{", "k", "v", "}">> }

RECURSIVE IsJSONValue(_)
\* json.loads accepts t: a scalar, {} or {"k": value}.
IsJSONValue(t) ==
    \/ t = <<"v">>
    \/ /\ Len(t) >= 2
       /\ t[1] = "{"
       /\ t[Len(t)] = "}"
       /\ \/ Len(t) = 2
          \/ /\ t[2] = "k"
             /\ IsJSONValue(SubSeq(t, 3, Len(t) - 1))

\* accumulated_content.find('{'), 1-based; 0 when absent
FindBrace(t) ==
    IF \E i \in 1..Len(t) : t[i] = "{"
      THEN CHOOSE i \in 1..Len(t) : t[i] = "{" /\ \A j \in 1..(i - 1) : t[j] # "{"
      ELSE 0

\* brace_count after the characters s..i have been scanned
BraceCount(t, s, i) ==
    Cardinality({j \in s..i : t[j] = "{"}) - Cardinality({j \in s..i : t[j] = "}"})

\* accumulated_content[start_idx:end_idx] of the brace scan: up to the first "}"
\* at which brace_count is back to 0; empty when there is none (end_idx = start_idx).
BraceSlice(t, s) ==
    LET closes == {i \in s..Len(t) : t[i] = "}" /\ BraceCount(t, s, i) = 0}
    IN  IF closes = {} THEN << >>
        ELSE SubSeq(t, s, CHOOSE i \in closes : \A j \in closes : i <= j)

\* Phase 1's parse of the accumulated content: the exception kind and message it
\* raises, or "ok" with the text handed to json.loads.
StructureParse(t) ==
    LET s == FindBrace(t) IN
    IF s = 0 THEN [kind |-> "ValueError", msg |-> "No JSON found", text |-> << >>]
    ELSE LET js == BraceSlice(t, s) IN
         IF IsJSONValue(js) THEN [kind |-> "ok", msg |-> "", text |-> js]
         ELSE [kind |-> "JSONDecodeError", msg |-> "", text |-> js]

----------------------------------------------------------------------------
(* StreamingChunk and the generator's yields                               *)

NoValue == -1

Chunk(type, seq, final, phase, progress, ref) ==
    [type |-> type, sequence |-> seq, is_final |-> final,
     phase |-> phase, progress |-> progress, ref |-> ref]

StatusChunk(seq, phase, progress, ref) ==
    Chunk("status", seq, FALSE, phase, progress, ref)

\* Faulty variant: an error chunk left at the default is_final=False.
ErrorChunkNotFinal(seq, content) == Chunk("error", seq, FALSE, 0, NoValue, content)

\* StreamingChunk(type="error", ..., sequence=sequence, is_final=True)
ErrorChunk(seq, content) == Chunk("error", seq, TRUE, 0, NoValue, content)

\* The requests: every combination of the fields the pipeline branches on, with the
\* default model, and one request that names a model.
Requests ==
    [include_reasoning : BOOLEAN, start_position : BOOLEAN,
     area_of_interest : 0..MaxAoi, model : {NoModel}]
    \cup { [include_reasoning |-> FALSE, start_position |-> FALSE,
            area_of_interest |-> 0, model |-> "openai/gpt-4o"] }

Init ==
    /\ pc = "start"
    /\ request \in Requests
    /\ openrouter_key \in BOOLEAN
    /\ debug_manager = NewDebugManager
    /\ maps_key \in BOOLEAN
    /\ chunks = << >>
    /\ sequence = 0
    /\ inner_sequence = 0
    /\ p3_calls = 0
    /\ events = 0
    /\ accumulated_content = << >>
    /\ structure_data = NoStructure
    /\ geocoded_locations = << >>
    /\ loc_idx = 0
    /\ successful_geocodes = 0
    /\ plan_data = NoPlanData
    /\ wp_done = 0
    /\ RestOfStateIdle
    /\ WrapperEnter(P1MaxRetries, P1BaseDelay, DefaultMaxDelay, DefaultBackoffFactor)

----------------------------------------------------------------------------
(* Phase 1: generate_mission_plan and _generate_mission_structure          *)

\* yield status (progress 5); sequence += 1
P1Start ==
    /\ pc = "start"
    /\ chunks' = Append(chunks, StatusChunk(sequence, 1, 5 * ProgressScale, ""))
    /\ sequence' = sequence + 1
    /\ pc' = "phase1"
    /\ UNCHANGED << request, openrouter_key, maps_key, debug_manager,
                    inner_sequence, p3_calls,
                    events, accumulated_content, structure_data, geocoded_locations,
                    loc_idx, successful_geocodes, plan_data, wp_done,
                    stream_args, mission_plan, response, extraction, runs,
                    upstream >>
    /\ UNCHANGED wrapperVars

p1InvokeFrame == << pc, request, openrouter_key, maps_key, debug_manager,
                    chunks, sequence,
                    inner_sequence, p3_calls, geocoded_locations, loc_idx,
                    successful_geocodes, plan_data, wp_done, mission_plan, response,
                    extraction, runs >>

p1Frame == << p1InvokeFrame, stream_args >>

\* os.getenv('OPENROUTER_API_MODEL', 'google/gemini-2.5-pro') with the variable unset
DefaultModel == "google/gemini-2.5-pro"

\* model_to_use = request.model or default_model
ModelToUse(req) == IF req.model # NoModel THEN req.model ELSE DefaultModel

\* Faulty variant: the content is kept in a place that outlives the call.
ContentCarriedOver(prev) == prev

\* accumulated_content = "": a local of the LLM-calling coroutine, empty when a call
\* starts whatever an earlier call had accumulated, and gone when the call exits
FreshContent(prev) == << >>

\* stream_text(prompt=..., system_prompt=..., model=..., include_reasoning=False)
StructureCall(req) ==
    [phase |-> 1, model |-> ModelToUse(req), prompt_locations |-> << >>,
     response_schema |-> FALSE, include_reasoning |-> FALSE]

\* A stream_text call starts: the log of the previous call is dropped.
CallStarted(u) == [u EXCEPT !.events = << >>, !.parsed = << >>]

\* One event of the stream has been consumed.
Delivered(u, content, reasoning, finish) ==
    IF u.trace
      THEN [u EXCEPT !.events = Append(@, [content |-> content, reasoning |-> reasoning,
                                          finish |-> finish])]
      ELSE u

\* A text has been handed to the parser.
Parsed(u, text) == IF u.trace THEN [u EXCEPT !.parsed = Append(@, text)] ELSE u

\* The wrapper invokes _generate_mission_structure: accumulated_content = "" and the
\* first step of stream_text, which raises ValueError when the key is missing.
P1Invoke ==
    /\ pc = "phase1"
    /\ w_pc = "call"
    /\ calls' = calls + 1
    /\ accumulated_content' = FreshContent(accumulated_content)
    /\ events' = 0
    /\ IF openrouter_key
         THEN /\ w_pc' = "running"
              /\ UNCHANGED << max_retries, base_delay, max_delay, backoff_factor,
                              attempt, delay, last_exception, sleeps, failures, raised >>
         ELSE WrapperCatch(Exc("ValueError", "OPENROUTER_API_KEY is not configured", calls'))
    /\ stream_args' = StructureCall(request)
    /\ upstream' = CallStarted(upstream)
    /\ UNCHANGED structure_data
    /\ UNCHANGED p1InvokeFrame

\* The structure a parsed Phase-1 object carries: key_locations is a list of entries
\* (a name, "" for a missing or empty name, BadEntry for an entry that is no object)
\* or a value len() rejects.  The empty object has no key_locations.
BadEntry == "#not-an-object"

LocationEntries == {"", "A", "start_position", BadEntry}

SeqsUpTo(S, n) == UNION { [1..k -> S] : k \in 0..n }

Structures(text) ==
    IF Len(text) = 2 THEN { NoStructure }
    ELSE { [sized |-> TRUE, key_locations |-> kl] :
             kl \in SeqsUpTo(LocationEntries, MaxKeyLocations) }
         \cup { [sized |-> FALSE, key_locations |-> << >>] }

\* finish_reason of an upstream event
FinishReasons == {"none", "stop", "length"}

\* The LLM-calling coroutine returns or raises: its locals are gone.
CallableExit ==
    /\ accumulated_content' = FreshContent(accumulated_content)
    /\ events' = 0

\* Faulty variant: the text is parsed before the delta of the event that carries
\* the finish signal has been added.
TextBeforeFinishEvent(acc, d) == acc

\* `accumulated_content += delta.content`, then the check of finish_reason: the text
\* the parser gets at the event that carries 'stop'
TextAtFinish(acc, d) == acc \o d

\* One upstream event of the Phase-1 stream: the content delta is accumulated and,
\* when finish_reason is 'stop', the content is parsed.
P1Event ==
    /\ pc = "phase1"
    /\ w_pc = "running"
    /\ events < MaxEvents
    /\ \E d \in ContentDeltas, finish \in FinishReasons :
          IF finish # "stop"
            THEN /\ accumulated_content' = accumulated_content \o d
                 /\ events' = events + 1
                 /\ upstream' = Delivered(upstream, d, "", finish)
                 /\ UNCHANGED wrapperVars
                 /\ UNCHANGED structure_data
            ELSE LET text == TextAtFinish(accumulated_content, d)
                     r == StructureParse(text)
                 IN
                 /\ upstream' = Parsed(Delivered(upstream, d, "", finish), text)
                 /\ CallableExit
                 /\ IF r.kind = "ok"
                      THEN /\ structure_data' \in Structures(r.text)
                           /\ WrapperReturn
                           /\ UNCHANGED calls
                      ELSE /\ WrapperCatch(Exc(r.kind, r.msg, calls))
                           /\ UNCHANGED << calls, structure_data >>
    /\ UNCHANGED p1Frame

\* The stream ends without a 'stop': raise ValueError("No structure analysis
\* response received").
P1StreamEnd ==
    /\ pc = "phase1"
    /\ w_pc = "running"
    /\ CallableExit
    /\ WrapperCatch(Exc("ValueError", "No structure analysis response received", calls))
    /\ UNCHANGED << calls, structure_data, upstream >>
    /\ UNCHANGED p1Frame

\* stream_text re-raises an upstream request or stream failure.
P1StreamError ==
    /\ pc = "phase1"
    /\ w_pc = "running"
    /\ CallableExit
    /\ WrapperCatch(Exc("Exception", "upstream stream failure", calls))
    /\ UNCHANGED << calls, structure_data, upstream >>
    /\ UNCHANGED p1Frame

\* The wrapper's backoff sleep between two Phase-1 attempts.
P1Sleep == pc = "phase1" /\ WrapperSleep

\* The wrapper's frame is gone once it has returned.
WrapperReleased ==
    /\ w_pc' = "idle"
    /\ attempt' = 0
    /\ delay' = 0
    /\ last_exception' = NoException
    /\ calls' = 0
    /\ sleeps' = << >>
    /\ failures' = << >>
    /\ UNCHANGED << max_retries, base_delay, max_delay, backoff_factor >>

\* structure_data returned: len(structure_data.get('key_locations', [])) and the
\* progress-25 chunk; a failure of len() is caught by `except Exception`.
P1Summary ==
    /\ pc = "phase1"
    /\ w_pc = "returned"
    /\ IF structure_data.sized
         THEN /\ chunks' = Append(chunks, StatusChunk(sequence, 1, 25 * ProgressScale, ""))
              /\ sequence' = sequence + 1
              /\ pc' = "p2_start"
              /\ UNCHANGED raised
         ELSE /\ chunks' = Append(chunks,
                              ErrorChunk(sequence, "Mission structure analysis failed"))
              /\ raised' = Exc("TypeError", "len()", 0)
              /\ pc' = "done"
              /\ UNCHANGED sequence
    /\ WrapperReleased
    /\ UNCHANGED << request, openrouter_key, maps_key, debug_manager,
                    inner_sequence, p3_calls,
                    events, accumulated_content, structure_data, geocoded_locations,
                    loc_idx, successful_geocodes, plan_data, wp_done,
                    stream_args, mission_plan, response, extraction, runs,
                    upstream >>

\* Faulty variant: the `return` after the Phase-1 error chunk is missing.
FallThroughToPhase2 == "p2_start"

\* Faulty variant: Phase 1 is started over after its error chunk.
RestartAfterPhase1Error == "start"

\* `return` after the Phase-1 error chunk
AfterPhase1Error == "done"

\* The wrapper raised: the error chunk, then return.
P1Failed ==
    /\ pc = "phase1"
    /\ w_pc = "raised"
    /\ chunks' = Append(chunks, ErrorChunk(sequence, "Mission structure analysis failed"))
    /\ pc' = AfterPhase1Error
    /\ UNCHANGED << request, openrouter_key, maps_key, debug_manager,
                    sequence, inner_sequence,
                    p3_calls, events, accumulated_content, structure_data,
                    geocoded_locations, loc_idx, successful_geocodes, plan_data,
                    wp_done, stream_args, mission_plan, response, extraction, runs,
                    upstream >>
    /\ UNCHANGED wrapperVars

----------------------------------------------------------------------------
(* Phase 2: _geocode_mission_locations and the per-location chunks         *)

NoCoords == << >>

\* (request.start_position.lat, request.start_position.lng)
StartCoords == <<0, 0>>

\* (coord.lat, coord.lng) of area_of_interest[i-1]
AoiCoords(i) == <<i, i>>

AoiKey(i) == "aoi_point_" \o ToString(i)

\* What geocode_location can return for a name: None without an API key, else the
\* provider's first result or None.
GeocodeResults(key) == IF key THEN { NoCoords, <<1, 2>> } ELSE { NoCoords }

\* Faulty variant: the provider is asked even without an API key.
RequestsProviderAlways(key) == TRUE

\* `if not self.api_key: return None` comes before the request is built
RequestsProvider(key) == key

\* geocode_location(name) has been called.
LookedUp(u, name, key) ==
    [u EXCEPT !.lookups = Append(@, [name |-> name, network |-> RequestsProvider(key)])]

\* Faulty variant: every non-empty name is looked up, in the map already or not.
NeedsLookupNonEmpty(name, m) == name # ""

\* `if location_name and location_name not in geocoded_locations:`
NeedsLookup(name, m) == name # "" /\ name \notin { m[i].name : i \in 1..Len(m) }

\* The map before any lookup: start_position, then aoi_point_<i>.
InitialLocations(req) ==
    (IF req.start_position
       THEN << [name |-> "start_position", coords |-> StartCoords] >> ELSE << >>)
    \o [i \in 1..req.area_of_interest |-> [name |-> AoiKey(i), coords |-> AoiCoords(i)]]

LocationNames(m) == { m[i].name : i \in 1..Len(m) }

\* Faulty variant: every entry of the map gets a chunk.
ResolvedAlways(entry) == TRUE

\* `if coords:` on a map entry
Resolved(entry) == entry.coords # NoCoords

\* Where Phase 2 goes after the key_locations entry at position idx has been handled.
GeocodeAdvance(idx) ==
    IF idx >= Len(structure_data.key_locations)
      THEN pc' = "p2_emit" /\ loc_idx' = 0
      ELSE pc' = "geocoding" /\ loc_idx' = idx

p2LookupFrame == << request, openrouter_key, maps_key, debug_manager,
                    inner_sequence, p3_calls,
                    events, accumulated_content, structure_data, plan_data, wp_done,
                    stream_args, mission_plan, response, extraction, runs >>

p2Frame == << p2LookupFrame, upstream >>

\* yield status (progress 30); sequence += 1; then _geocode_mission_locations up to
\* its first lookup.
P2Start ==
    /\ pc = "p2_start"
    /\ chunks' = Append(chunks, StatusChunk(sequence, 2, 30 * ProgressScale, ""))
    /\ sequence' = sequence + 1
    /\ geocoded_locations' = InitialLocations(request)
    /\ GeocodeAdvance(0)
    /\ UNCHANGED << successful_geocodes, raised >>
    /\ UNCHANGED p2Frame
    /\ UNCHANGED << w_pc, max_retries, base_delay, max_delay, backoff_factor,
                    attempt, delay, last_exception, calls, sleeps, failures >>

\* One iteration of `for location in structure_data.get('key_locations', [])`.
GeocodeEntry ==
    /\ pc = "geocoding"
    /\ LET name == structure_data.key_locations[loc_idx + 1] IN
       IF name = BadEntry
         THEN /\ raised' = Exc("AttributeError", "get", 0)
              /\ pc' = "p2_raised"
              /\ UNCHANGED << geocoded_locations, loc_idx, upstream >>
         ELSE /\ UNCHANGED raised
              /\ GeocodeAdvance(loc_idx + 1)
              /\ IF NeedsLookup(name, geocoded_locations)
                   THEN /\ \E c \in GeocodeResults(maps_key) :
                             geocoded_locations' =
                               Append(geocoded_locations, [name |-> name, coords |-> c])
                        /\ upstream' = LookedUp(upstream, name, maps_key)
                   ELSE UNCHANGED << geocoded_locations, upstream >>
    /\ UNCHANGED << chunks, sequence, successful_geocodes >>
    /\ UNCHANGED p2LookupFrame
    /\ UNCHANGED << w_pc, max_retries, base_delay, max_delay, backoff_factor,
                    attempt, delay, last_exception, calls, sleeps, failures >>

\* Positions after loc_idx of the map entries that produce a chunk.
ResolvedAfter(m, i) == { j \in (i + 1)..Len(m) : Resolved(m[j]) }

\* Faulty variant: the count is not divided by the size of the map.
GeocodeProgressUndivided(done, total) ==
    30 * ProgressScale + done * 25 * ProgressScale

\* 30 + (successful_geocodes / len(geocoded_locations)) * 25
GeocodeProgress(done, total) ==
    30 * ProgressScale + (done * 25 * ProgressScale) \div total

\* Faulty variant: the per-location chunk tagged with phase 1.
LocationChunkPhase1(seq, done, total, name) ==
    StatusChunk(seq, 1, GeocodeProgress(done, total), name)

\* The per-location status chunk
LocationChunk(seq, done, total, name) ==
    StatusChunk(seq, 2, GeocodeProgress(done, total), name)

\* The loop over geocoded_locations.items() up to its next yield.
P2EmitLocation ==
    /\ pc = "p2_emit"
    /\ ResolvedAfter(geocoded_locations, loc_idx) # {}
    /\ LET j == CHOOSE k \in ResolvedAfter(geocoded_locations, loc_idx) :
                   \A l \in ResolvedAfter(geocoded_locations, loc_idx) : k <= l
       IN /\ successful_geocodes' = successful_geocodes + 1
          /\ chunks' = Append(chunks,
                 LocationChunk(sequence, successful_geocodes',
                     Len(geocoded_locations), geocoded_locations[j].name))
          /\ sequence' = sequence + 1
          /\ loc_idx' = j
    /\ UNCHANGED << pc, geocoded_locations, raised >>
    /\ UNCHANGED p2Frame
    /\ UNCHANGED << w_pc, max_retries, base_delay, max_delay, backoff_factor,
                    attempt, delay, last_exception, calls, sleeps, failures >>

\* yield status (progress 55); sequence += 1
P2Summary ==
    /\ pc = "p2_emit"
    /\ ResolvedAfter(geocoded_locations, loc_idx) = {}
    /\ chunks' = Append(chunks, StatusChunk(sequence, 2, 55 * ProgressScale, ""))
    /\ sequence' = sequence + 1
    /\ pc' = "p3_start"
    /\ loc_idx' = 0
    /\ UNCHANGED << geocoded_locations, successful_geocodes, raised >>
    /\ UNCHANGED p2Frame
    /\ UNCHANGED << w_pc, max_retries, base_delay, max_delay, backoff_factor,
                    attempt, delay, last_exception, calls, sleeps, failures >>

\* except Exception: the error chunk, then return.
P2Failed ==
    /\ pc = "p2_raised"
    /\ chunks' = Append(chunks, ErrorChunk(sequence, "Location geocoding failed"))
    /\ pc' = "done"
    /\ UNCHANGED << sequence, geocoded_locations, loc_idx, successful_geocodes, raised >>
    /\ UNCHANGED p2Frame
    /\ UNCHANGED << w_pc, max_retries, base_delay, max_delay, backoff_factor,
                    attempt, delay, last_exception, calls, sleeps, failures >>

----------------------------------------------------------------------------
(* Phase 3: _generate_detailed_mission_plan and the hand-over to the outer *)
(* generator                                                               *)

\* Phase 3's parse of the accumulated content: json.loads of the whole text first,
\* then the brace scan.
DetailedParse(t) ==
    IF IsJSONValue(t) THEN [kind |-> "ok", msg |-> "", text |-> t]
    ELSE LET s == FindBrace(t) IN
         IF s = 0 THEN [kind |-> "ValueError", msg |-> "No JSON found", text |-> << >>]
         ELSE LET js == BraceSlice(t, s) IN
              IF IsJSONValue(js) THEN [kind |-> "ok", msg |-> "", text |-> js]
              ELSE [kind |-> "JSONDecodeError", msg |-> "", text |-> js]

NoId == ""

\* A waypoint object of the payload: its id ("" when absent) and whether Waypoint,
\* WaypointType and Coordinate accept it.
WaypointEntries ==
    { [id |-> "a", valid |-> TRUE], [id |-> NoId, valid |-> TRUE],
      [id |-> "a", valid |-> FALSE] }

\* What a parsed Phase-3 value carries: the waypoints list (or none) and whether
\* mission_name, mission_description, estimated_duration and total_distance are there.
PlanPayloads(text) ==
    IF Len(text) <= 2 THEN { NoPlanData }
    ELSE { NoPlanData } \cup
         { [has_waypoints |-> TRUE, waypoints |-> w, has_fields |-> f] :
             w \in SeqsUpTo(WaypointEntries, MaxWaypoints), f \in BOOLEAN }

\* The inner generator's `sequence += 1` after a yield
InnerAfterYield(seq) == seq + 1

\* Faulty variant: the outer generator does not count the chunks it re-yields.
OuterKeepsSequence(seq) == seq

\* The outer generator's `sequence += 1` after re-yielding an inner chunk
OuterAfterInnerYield(seq) == seq + 1

p3CallFrame == << request, openrouter_key, maps_key, debug_manager, structure_data,
                  geocoded_locations, loc_idx, successful_geocodes, response,
                  extraction, runs >>

p3EventFrame == << p3CallFrame, stream_args, mission_plan >>

p3Frame == << p3EventFrame, upstream >>

idleWrapper == << w_pc, max_retries, base_delay, max_delay, backoff_factor,
                  attempt, delay, last_exception, calls, sleeps, failures >>

\* yield status (progress 60); sequence += 1
P3Start ==
    /\ pc = "p3_start"
    /\ chunks' = Append(chunks, StatusChunk(sequence, 3, 60 * ProgressScale, ""))
    /\ sequence' = sequence + 1
    /\ pc' = "p3_call"
    /\ UNCHANGED << inner_sequence, p3_calls, events, accumulated_content,
                    plan_data, wp_done, raised >>
    /\ UNCHANGED p3Frame
    /\ UNCHANGED idleWrapper

\* Faulty variant: the schema is passed whatever the request says.
SchemaAlways(req) == TRUE

\* response_schema=response_schema if not request.include_reasoning else None
SchemaPassed(req) == ~req.include_reasoning

RECURSIVE SelectEntries(_, _)
\* The entries of a map, in order, whose index is in keep
SelectEntries(m, keep) ==
    IF m = << >> THEN << >>
    ELSE LET rest == SelectEntries(SubSeq(m, 1, Len(m) - 1), keep)
         IN  IF Len(m) \in keep THEN Append(rest, m[Len(m)]) ELSE rest

\* The line of the prompt for one map entry: the name with "Lat: ..., Lng: ..." or
\* with the failure flag.
LocationLine(entry) ==
    IF Resolved(entry)
      THEN [name |-> entry.name, text |-> "coordinates", coords |-> entry.coords]
      ELSE [name |-> entry.name, text |-> "GEOCODING FAILED - use fallback coordinates",
            coords |-> NoCoords]

\* Faulty variant: only the resolved entries are listed.
ResolvedLocationLines(m) ==
    LET r == SelectEntries(m, { i \in 1..Len(m) : Resolved(m[i]) })
    IN  [i \in 1..Len(r) |-> LocationLine(r[i])]

\* The "Precise Coordinates for Key Locations" lines of _build_detailed_prompt
PromptLocationLines(m) == [i \in 1..Len(m) |-> LocationLine(m[i])]

\* stream_text(prompt=prompt, ..., model=model_to_use, response_schema=...,
\* include_reasoning=request.include_reasoning)
DetailedCall(req, m) ==
    [phase |-> 3, model |-> ModelToUse(req),
     prompt_locations |-> PromptLocationLines(m),
     response_schema |-> SchemaPassed(req),
     include_reasoning |-> req.include_reasoning]

\* The inner generator starts: sequence = start_sequence, the empty accumulators and
\* the call of stream_text.
P3Call ==
    /\ pc = "p3_call"
    /\ inner_sequence' = sequence
    /\ accumulated_content' = << >>
    /\ events' = 0
    /\ p3_calls' = p3_calls + 1
    /\ stream_args' = DetailedCall(request, geocoded_locations)
    /\ upstream' = CallStarted(upstream)
    /\ pc' = "p3_stream"
    /\ UNCHANGED << chunks, sequence, plan_data, wp_done, raised, mission_plan >>
    /\ UNCHANGED p3CallFrame
    /\ UNCHANGED idleWrapper

\* delta.reasoning is absent or empty
NoReasoning == ""

\* The reasoning deltas an event can carry; two different ones where the events are
\* logged.
ReasoningDeltas(u) == {NoReasoning, "r"} \cup (IF u.trace THEN {"s"} ELSE {})

\* Faulty variant: the reasoning chunks are held back.
ReasoningBuffered(reasoning, seq) == << >>

\* The chunks of one upstream event: the reasoning chunk, if the delta has reasoning.
ReasoningChunks(reasoning, seq) ==
    IF reasoning # NoReasoning
      THEN << Chunk("reasoning", seq, FALSE, 0, NoValue, reasoning) >>
      ELSE << >>

\* One upstream event of the Phase-3 stream: the reasoning delta is yielded, the
\* content delta accumulated and, when finish_reason is 'stop', the content is
\* parsed and len(plan_data['waypoints']) taken.
P3Event ==
    /\ pc = "p3_stream"
    /\ events < MaxEvents
    /\ \E reasoning \in ReasoningDeltas(upstream), d \in ContentDeltas,
          finish \in FinishReasons :
          /\ chunks' = chunks \o ReasoningChunks(reasoning, inner_sequence)
          /\ inner_sequence' =
                IF reasoning # NoReasoning THEN InnerAfterYield(inner_sequence)
                ELSE inner_sequence
          /\ sequence' =
                IF reasoning # NoReasoning THEN OuterAfterInnerYield(sequence)
                ELSE sequence
          /\ IF finish # "stop"
               THEN /\ accumulated_content' = accumulated_content \o d
                    /\ events' = events + 1
                    /\ upstream' = Delivered(upstream, d, reasoning, finish)
                    /\ UNCHANGED << pc, plan_data, raised >>
               ELSE LET text == TextAtFinish(accumulated_content, d)
                        r == DetailedParse(text)
                    IN
                    /\ upstream' = Parsed(Delivered(upstream, d, reasoning, finish), text)
                    /\ CallableExit
                    /\ IF r.kind = "ok"
                         THEN \E pd \in PlanPayloads(r.text) :
                                /\ plan_data' = pd
                                /\ IF pd.has_waypoints
                                     THEN pc' = "p3_waypoints" /\ UNCHANGED raised
                                     ELSE /\ pc' = "p3_raised"
                                          /\ raised' = Exc("KeyError", "waypoints", 0)
                         ELSE /\ pc' = "p3_raised"
                              /\ raised' = Exc(r.kind, r.msg, 0)
                              /\ UNCHANGED plan_data
    /\ UNCHANGED << p3_calls, wp_done >>
    /\ UNCHANGED p3EventFrame
    /\ UNCHANGED idleWrapper

\* The upstream stream ends without a 'stop': the async for loop ends, the inner
\* generator finishes and so does the outer one.
P3StreamEnd ==
    /\ pc = "p3_stream"
    /\ CallableExit
    /\ pc' = "done"
    /\ UNCHANGED << chunks, sequence, inner_sequence, p3_calls, plan_data, wp_done,
                    raised >>
    /\ UNCHANGED p3Frame
    /\ UNCHANGED idleWrapper

\* stream_text raises (request or stream failure): the exception leaves the inner
\* generator.
P3StreamError ==
    /\ pc = "p3_stream"
    /\ CallableExit
    /\ raised' = Exc("Exception", "upstream stream failure", 0)
    /\ pc' = "p3_raised"
    /\ UNCHANGED << chunks, sequence, inner_sequence, p3_calls, plan_data, wp_done >>
    /\ UNCHANGED p3Frame
    /\ UNCHANGED idleWrapper

\* 70 + (i / total_waypoints) * 20
WaypointProgress(i, total) ==
    70 * ProgressScale + (i * 20 * ProgressScale) \div total

\* wp_data.get('id', str(uuid.uuid4())): the i-th waypoint's id
WaypointId(entry, i) ==
    IF entry.id # NoId THEN entry.id ELSE "uuid-" \o ToString(i)

\* Faulty variant: all waypoints are validated before the first chunk is yielded.
AllWaypointsBuilt(pd, i) == \A j \in 1..Len(pd.waypoints) : pd.waypoints[j].valid

\* Waypoint(id=..., type=WaypointType(wp_data['type']), position=Coordinate(...),
\* ...) of the i-th entry inside the loop: built, or a validation error raised
WaypointBuilt(pd, i) == pd.waypoints[i].valid

\* One iteration of the waypoint loop: the Waypoint is built (or its validation
\* raises) and its status chunk yielded.
P3Waypoint ==
    /\ pc = "p3_waypoints"
    /\ wp_done < Len(plan_data.waypoints)
    /\ LET i == wp_done + 1
           wp == plan_data.waypoints[i]
       IN IF WaypointBuilt(plan_data, i)
            THEN /\ chunks' = Append(chunks,
                       StatusChunk(inner_sequence, 3,
                           WaypointProgress(i, Len(plan_data.waypoints)),
                           WaypointId(wp, i)))
                 /\ inner_sequence' = InnerAfterYield(inner_sequence)
                 /\ sequence' = OuterAfterInnerYield(sequence)
                 /\ wp_done' = i
                 /\ UNCHANGED << pc, raised >>
            ELSE /\ raised' = Exc("ValidationError", "waypoint", 0)
                 /\ pc' = "p3_raised"
                 /\ UNCHANGED << chunks, inner_sequence, sequence, wp_done >>
    /\ UNCHANGED << p3_calls, events, accumulated_content, plan_data >>
    /\ UNCHANGED p3Frame
    /\ UNCHANGED idleWrapper

\* Faulty variant: the whole location map goes into the metadata.
AllLocations(m) == m

\* {k: v for k, v in geocoded_locations.items() if v is not None}
NonNullLocations(m) ==
    SelectEntries(m, { i \in 1..Len(m) : m[i].coords # NoCoords })

\* "generated_by": request.model or "default"
GeneratedBy(req) == IF req.model # NoModel THEN req.model ELSE "default"

\* MissionPlan(id=..., waypoints=waypoints, ..., metadata={...})
BuildMissionPlan(req, pd, m) ==
    [built |-> TRUE,
     waypoints |-> [i \in 1..Len(pd.waypoints) |-> WaypointId(pd.waypoints[i], i)],
     generated_by |-> GeneratedBy(req),
     geocoded_locations |-> NonNullLocations(m)]

\* Faulty variant: plan fields read with .get() and a default.
PlanFieldsDefaulted(pd) == TRUE

\* plan_data['mission_name'], ['mission_description'], ['estimated_duration'] and
\* ['total_distance'] are all there and MissionPlan accepts them
PlanFieldsPresent(pd) == pd.has_fields

\* MissionPlan(...) is built (a missing plan field raises KeyError) and the
\* progress-95 chunk yielded.
P3Summary ==
    /\ pc = "p3_waypoints"
    /\ wp_done = Len(plan_data.waypoints)
    /\ IF PlanFieldsPresent(plan_data)
         THEN /\ mission_plan' = BuildMissionPlan(request, plan_data, geocoded_locations)
              /\ chunks' = Append(chunks,
                    StatusChunk(inner_sequence, 3, 95 * ProgressScale, ""))
              /\ inner_sequence' = InnerAfterYield(inner_sequence)
              /\ sequence' = OuterAfterInnerYield(sequence)
              /\ pc' = "p3_plan"
              /\ UNCHANGED raised
         ELSE /\ raised' = Exc("KeyError", "mission_name", 0)
              /\ pc' = "p3_raised"
              /\ UNCHANGED << chunks, inner_sequence, sequence, mission_plan >>
    /\ UNCHANGED << p3_calls, events, accumulated_content, plan_data, wp_done,
                    stream_args, upstream >>
    /\ UNCHANGED p3CallFrame
    /\ UNCHANGED idleWrapper

\* yield the plan chunk (is_final=True); the inner generator returns, the outer one
\* does its `sequence += 1` and finishes.
P3Plan ==
    /\ pc = "p3_plan"
    /\ chunks' = Append(chunks,
           Chunk("plan", inner_sequence, TRUE, 0, 100 * ProgressScale, ""))
    /\ sequence' = OuterAfterInnerYield(sequence)
    /\ pc' = "done"
    /\ UNCHANGED << inner_sequence, p3_calls, events, accumulated_content, plan_data,
                    wp_done, raised >>
    /\ UNCHANGED p3Frame
    /\ UNCHANGED idleWrapper

\* except Exception around the inner generator: the error chunk carries the outer
\* generator's sequence.
P3Failed ==
    /\ pc = "p3_raised"
    /\ chunks' = Append(chunks, ErrorChunk(sequence, "Detailed mission planning failed"))
    /\ pc' = "done"
    /\ UNCHANGED << sequence, inner_sequence, p3_calls, events, accumulated_content,
                    plan_data, wp_done, raised >>
    /\ UNCHANGED p3Frame
    /\ UNCHANGED idleWrapper

\* asyncio.CancelledError and GeneratorExit derive from BaseException
CancellationKinds == {"CancelledError", "GeneratorExit"}

\* Faulty variant: handlers written as `except BaseException`.
CaughtByExceptBaseException(kind) == TRUE

\* Whether `except Exception` catches an exception of this kind
CaughtByExceptException(kind) == kind \notin CancellationKinds

\* The run is suspended in an await (LLM stream, backoff sleep, geocoding lookup)
\* and not in a yield
SuspendedInAwait ==
    \/ pc = "phase1" /\ w_pc \in {"running", "sleep"}
    \/ pc \in {"geocoding", "p3_stream"}

\* Where an exception raised at pc is handled if an `except Exception` clause of
\* generate_mission_plan catches it; the phase-start yields are outside the try blocks.
HandlerOf(p) ==
    IF p \in {"geocoding", "p2_emit"} THEN "p2_raised"
    ELSE IF p \in {"p3_call", "p3_stream", "p3_waypoints", "p3_plan"} THEN "p3_raised"
    ELSE IF p = "phase1" THEN "phase1"
    ELSE "abandoned"

\* A cancellation has been raised into the run
Cancelled ==
    \/ raised.kind \in CancellationKinds
    \/ \E i \in 1..Len(failures) : failures[i].kind \in CancellationKinds

\* The task running the generator is cancelled (CancelledError raised into the
\* pending await) or the consumer closes the generator (GeneratorExit raised at the
\* pending yield).  No `except Exception` clause catches either: the frames of the
\* generators and of the wrapper are unwound and nothing more is yielded.
Abandon ==
    /\ pc \notin {"done", "abandoned", "simple_end", "sse_end"}
    /\ ~Cancelled
    /\ LET e == Exc(IF SuspendedInAwait THEN "CancelledError" ELSE "GeneratorExit",
                    "", 0)
       IN  IF ~CaughtByExceptException(e.kind)
             THEN /\ pc' = "abandoned"
                  /\ raised' = e
                  /\ sequence' = 0
                  /\ inner_sequence' = 0
                  /\ p3_calls' = 0
                  /\ CallableExit
                  /\ structure_data' = NoStructure
                  /\ geocoded_locations' = << >>
                  /\ loc_idx' = 0
                  /\ successful_geocodes' = 0
                  /\ plan_data' = NoPlanData
                  /\ wp_done' = 0
                  /\ stream_args' = NoCall
                  /\ mission_plan' = NoMissionPlan
                  /\ WrapperReleased
             ELSE IF pc = "phase1" /\ w_pc = "running"
                    THEN /\ CallableExit
                         /\ WrapperCatch(e)
                         /\ UNCHANGED << pc, calls, sequence, inner_sequence, p3_calls,
                                         structure_data, geocoded_locations, loc_idx,
                                         successful_geocodes, plan_data, wp_done,
                                         stream_args, mission_plan >>
                    ELSE /\ pc' = HandlerOf(pc)
                         /\ raised' = e
                         /\ w_pc' = IF pc = "phase1" THEN "raised" ELSE w_pc
                         /\ UNCHANGED << max_retries, base_delay, max_delay,
                                         backoff_factor, attempt, delay, last_exception,
                                         calls, sleeps, failures, sequence,
                                         inner_sequence, p3_calls, events,
                                         accumulated_content, structure_data,
                                         geocoded_locations, loc_idx,
                                         successful_geocodes, plan_data, wp_done,
                                         stream_args, mission_plan >>
    /\ UNCHANGED << request, openrouter_key, maps_key, debug_manager, chunks, response,
                    extraction, runs, upstream >>

consumerFrame == << request, openrouter_key, maps_key, debug_manager, chunks, sequence,
                    inner_sequence, p3_calls, events, accumulated_content,
                    structure_data, geocoded_locations, loc_idx, successful_geocodes,
                    plan_data, wp_done, stream_args, mission_plan, extraction, runs,
                    upstream >>

\* The keys of the plan chunk's data: {"progress": 100, "plan": mission_plan.dict()}
PlanChunkData == {"progress", "plan"}

\* The fields MissionPlan declares with Field(...)
MissionPlanRequired ==
    {"id", "name", "description", "waypoints", "estimated_duration", "total_distance"}

\* MissionPlan(**data) validates: every required field is among the keywords
MissionPlanAccepts(data) == MissionPlanRequired \subseteq data

\* generate_mission_plan_simple has consumed the generator: a final plan chunk goes
\* through MissionPlan(**chunk.data), whose ValidationError is not caught; without
\* one, mission_plan stays None and the failure response is returned.
SimpleReturn ==
    /\ pc = "done"
    /\ pc' = "simple_end"
    /\ response' =
          IF \E i \in 1..Len(chunks) : chunks[i].type = "plan" /\ chunks[i].is_final
            THEN IF MissionPlanAccepts(PlanChunkData)
                   THEN [kind |-> "returned", success |-> TRUE, has_plan |-> TRUE]
                   ELSE [kind |-> "raised", success |-> FALSE, has_plan |-> FALSE]
            ELSE [kind |-> "returned", success |-> FALSE, has_plan |-> FALSE]
    /\ UNCHANGED consumerFrame
    /\ UNCHANGED wrapperVars

\* event_generator's loop over the generator has ended: the 'done' event.
StreamDone ==
    /\ pc = "done"
    /\ pc' = "sse_end"
    /\ response' = [kind |-> "done_event", success |-> FALSE, has_plan |-> FALSE]
    /\ UNCHANGED consumerFrame
    /\ UNCHANGED wrapperVars

Next == \/ P1Start \/ P1Invoke \/ P1Event \/ P1StreamEnd \/ P1StreamError
        \/ P1Sleep \/ P1Summary \/ P1Failed
        \/ P2Start \/ GeocodeEntry \/ P2EmitLocation \/ P2Summary \/ P2Failed
        \/ P3Start \/ P3Call \/ P3Event \/ P3StreamEnd \/ P3StreamError
        \/ P3Waypoint \/ P3Summary \/ P3Plan \/ P3Failed
        \/ Abandon \/ SimpleReturn \/ StreamDone

Spec == Init /\ [][Next]_vars

----------------------------------------------------------------------------
(* The extraction of Phase 1 and of Phase 3 applied to a text made of      *)
(* prose, one well-formed JSON object and prose                            *)

MaxProse == 2            \* tokens of prose before, and after, the object

\* Prose: ordinary characters and stray braces
ProseTokens == {"p", "{", "}"}

\* Well-formed JSON objects: {}, {"k": v} and {"k": {}}
EmbeddedObjects ==
    { <<"{", "}">>, <<"{", "k", "v", "}">>, <<"{", "k", "{", "}", "}">> }

\* No run of the single-run pipeline is under way (the upstream log aside)
NoPipelineState ==
    /\ pc = "none"
    /\ request = [include_reasoning |-> FALSE, start_position |-> FALSE,
                  area_of_interest |-> 0, model |-> NoModel]
    /\ openrouter_key = TRUE
    /\ debug_manager = NewDebugManager
    /\ chunks = << >>
    /\ sequence = 0
    /\ inner_sequence = 0
    /\ p3_calls = 0
    /\ events = 0
    /\ structure_data = NoStructure
    /\ geocoded_locations = << >>
    /\ loc_idx = 0
    /\ successful_geocodes = 0
    /\ plan_data = NoPlanData
    /\ wp_done = 0
    /\ stream_args = NoCall
    /\ mission_plan = NoMissionPlan
    /\ response = NoResponse
    /\ WrapperEnter(P1MaxRetries, P1BaseDelay, DefaultMaxDelay, DefaultBackoffFactor)

NoPipelineRun == NoPipelineState /\ upstream = NoUpstream

ExtractInit ==
    /\ NoPipelineRun
    /\ maps_key = TRUE
    /\ runs = NoRuns
    /\ \E pre \in SeqsUpTo(ProseTokens, MaxProse), obj \in EmbeddedObjects,
          post \in SeqsUpTo(ProseTokens, MaxProse) :
          /\ accumulated_content = pre \o obj \o post
          /\ extraction = [embedded |-> obj, phase1 |-> NotRun, phase3 |-> NotRun]

extractFrame == << pc, request, openrouter_key, maps_key, debug_manager,
                   chunks, sequence,
                   inner_sequence, p3_calls, events, accumulated_content,
                   structure_data, geocoded_locations, loc_idx, successful_geocodes,
                   plan_data, wp_done, stream_args, mission_plan, response, runs,
                   upstream >>

\* _generate_mission_structure's parse of the accumulated content
ExtractPhase1 ==
    /\ extraction.phase1 = NotRun
    /\ extraction' = [extraction EXCEPT !.phase1 = StructureParse(accumulated_content)]
    /\ UNCHANGED extractFrame
    /\ UNCHANGED wrapperVars

\* _generate_detailed_mission_plan's parse of the accumulated content
ExtractPhase3 ==
    /\ extraction.phase3 = NotRun
    /\ extraction' = [extraction EXCEPT !.phase3 = DetailedParse(accumulated_content)]
    /\ UNCHANGED extractFrame
    /\ UNCHANGED wrapperVars

ExtractNext == ExtractPhase1 \/ ExtractPhase3

ExtractSpec == ExtractInit /\ [][ExtractNext]_vars

\* The extraction returned the object r.text
Recovered(r, obj) == r.kind = "ok" /\ r.text = obj

\* C12: from prose, one well-formed JSON object and prose, the extraction of Phase 1
\* and the extraction of Phase 3 both return the embedded object, whatever the
\* prose before and after it holds (stray braces included).
C12_RoundTrip ==
    /\ extraction.phase1 # NotRun => Recovered(extraction.phase1, extraction.embedded)
    /\ extraction.phase3 # NotRun => Recovered(extraction.phase3, extraction.embedded)

----------------------------------------------------------------------------
(* Properties of the chunk stream                                          *)

ChunkIndices == 1..Len(chunks)

FinalIndices == { i \in ChunkIndices : chunks[i].is_final }

LastChunk == chunks[Len(chunks)]

HasChunk(type) == \E i \in ChunkIndices : chunks[i].type = type

\* C1: the i-th chunk emitted (counting from 0) carries sequence = i, in every
\* state of every run: finished with a plan, finished with an error or abandoned.
C1_SequenceNumbers == \A i \in ChunkIndices : chunks[i].sequence = i - 1

\* A run whose Phase 3 yielded a reasoning chunk through the inner generator and
\* then failed: the error chunk is numbered by the outer generator.
C1_Witness ==
    /\ pc = "done"
    /\ Len(chunks) > 0
    /\ LastChunk.type = "error"
    /\ LastChunk.ref = "Detailed mission planning failed"
    /\ HasChunk("reasoning")

\* C2: a run that finishes has emitted exactly one final chunk, and it is the last.
C2_ExactlyOneFinalLast ==
    pc = "done" => /\ Len(chunks) > 0
                   /\ FinalIndices = { Len(chunks) }

\* C3: once a chunk with is_final = true has been emitted, no chunk is emitted.
C3_NothingAfterFinal == [][FinalIndices # {} => chunks' = chunks]_vars

\* A finished run that ended with its plan chunk.
C3_Witness ==
    /\ pc = "done"
    /\ Len(chunks) > 0
    /\ LastChunk.type = "plan"
    /\ LastChunk.is_final

\* C4: a chunk is final if and only if it is a plan chunk or an error chunk.
C4_FinalIffPlanOrError ==
    \A i \in ChunkIndices :
        chunks[i].is_final <=> chunks[i].type \in {"plan", "error"}

\* A stream holding status chunks, a reasoning chunk and an error chunk.
C4_Witness ==
    /\ HasChunk("status")
    /\ HasChunk("reasoning")
    /\ HasChunk("error")

IsPhaseMarker(c, phase, progress) ==
    /\ c.type = "status"
    /\ c.phase = phase
    /\ c.progress = progress * ProgressScale
    /\ c.ref = ""

\* C5: phase tags never decrease along the stream, nothing of phase 2 comes before
\* the phase-1 summary (progress 25), nothing of phase 3 and no reasoning or plan
\* chunk comes before the phase-2 summary (progress 55), and each phase-start
\* chunk (progress 5, 30, 60) is emitted at most once.
C5_PhaseOrder ==
    /\ \A i, j \in ChunkIndices :
          (i < j /\ chunks[i].type = "status" /\ chunks[j].type = "status")
             => chunks[i].phase <= chunks[j].phase
    /\ \A j \in ChunkIndices :
          chunks[j].phase = 2
             => \E i \in 1..(j - 1) : IsPhaseMarker(chunks[i], 1, 25)
    /\ \A j \in ChunkIndices :
          (chunks[j].phase = 3 \/ chunks[j].type \in {"reasoning", "plan"})
             => \E i \in 1..(j - 1) : IsPhaseMarker(chunks[i], 2, 55)
    /\ \A p \in { <<1, 5>>, <<2, 30>>, <<3, 60>> } :
          Cardinality({ i \in ChunkIndices : IsPhaseMarker(chunks[i], p[1], p[2]) }) <= 1

\* A finished run through all three phases, with a per-location chunk, a waypoint
\* chunk and the plan chunk.
C5_Witness ==
    /\ pc = "done"
    /\ HasChunk("plan")
    /\ \E i \in ChunkIndices : chunks[i].phase = 2 /\ chunks[i].ref # ""
    /\ \E i \in ChunkIndices : chunks[i].phase = 3 /\ chunks[i].ref # ""

----------------------------------------------------------------------------
(* Properties of retry_llm_call                                            *)

FailureIndices == 1..Len(failures)

AllFailuresParse == \A i \in FailureIndices : failures[i].kind = "JSONDecodeError"

AllFailuresNonParse == \A i \in FailureIndices : failures[i].kind # "JSONDecodeError"

\* C6: a callable that raises JSONDecodeError on every invocation is invoked
\* max_retries + 1 times, with max_retries sleeps, and the exception that leaves
\* the wrapper is the one its last invocation raised.
C6_ParseExhaustion ==
    /\ AllFailuresParse => calls <= max_retries + 1 /\ Len(sleeps) <= max_retries
    /\ (w_pc = "raised" /\ AllFailuresParse)
          => /\ calls = max_retries + 1
             /\ Len(sleeps) = max_retries
             /\ raised = failures[Len(failures)]
             /\ raised.id = calls

\* The wrapper with max_retries = 3 gave up after four parse failures.
C6_Witness ==
    /\ w_pc = "raised"
    /\ AllFailuresParse
    /\ max_retries = 3
    /\ calls = 4

RECURSIVE Pow(_, _)
Pow(b, n) == IF n = 0 THEN 1 ELSE b * Pow(b, n - 1)

\* C7: the delay slept before attempt k (k >= 1) is
\* min(base_delay * backoff_factor^(k-1), max_delay), for every configuration.
C7_DelaySchedule ==
    \A k \in 1..Len(sleeps) :
        sleeps[k] = Min(base_delay * Pow(backoff_factor, k - 1), max_delay)

\* Whether the i-th failure was followed by a retry.
Retried(i) == i < Len(failures) \/ w_pc \in {"sleep", "call", "returned"}

\* C8: a failure that is no parse failure is retried only at an attempt index
\* below min(2, max_retries); past it, it is re-raised at once, whatever came
\* before; a callable that always fails so is invoked min(2, max_retries) + 1 times.
C8_NonParseTier ==
    /\ \A i \in FailureIndices :
          failures[i].kind # "JSONDecodeError"
             => IF i - 1 < Min(2, max_retries)
                  THEN Retried(i)
                  ELSE /\ i = Len(failures)
                       /\ w_pc = "raised"
                       /\ raised = failures[i]
    /\ Cardinality({ i \in FailureIndices :
                       failures[i].kind # "JSONDecodeError" /\ Retried(i) })
          <= Min(2, max_retries)
    /\ (w_pc = "raised" /\ AllFailuresNonParse)
          => /\ calls = Min(2, max_retries) + 1
             /\ raised = failures[Len(failures)]

\* With max_retries = 3, two parse failures were retried and the third attempt's
\* failure of another kind was re-raised at once.
C8_Witness ==
    /\ w_pc = "raised"
    /\ max_retries = 3
    /\ Len(failures) = 3
    /\ failures[1].kind = "JSONDecodeError"
    /\ failures[2].kind = "JSONDecodeError"
    /\ failures[3].kind = "Exception"
    /\ raised = failures[3]

\* C9: when every Phase-1 attempt fails because the output holds no '{', the call
\* is attempted max_retries + 1 times before the error chunk.
C9_NoJsonFullBudget ==
    ( /\ pc = "done"
      /\ w_pc = "raised"
      /\ \A i \in FailureIndices : failures[i].msg = "No JSON found" )
        => calls = max_retries + 1

\* C10: with the LLM key missing the phase's LLM call is made once, no backoff
\* sleep occurs and the run ends with a final error chunk.
C10_MissingKeyNotRetried ==
    (~openrouter_key /\ pc = "done")
        => /\ calls = 1
           /\ sleeps = << >>
           /\ LastChunk.type = "error"
           /\ LastChunk.is_final

----------------------------------------------------------------------------
(* Properties of Phase 3's LLM call                                        *)

\* C11: the Phase-3 LLM call is re-attempted when its output cannot be parsed or
\* the upstream stream fails, so the 'Detailed mission planning failed' error
\* chunk that follows such a failure comes after more than one call.
C11_Phase3Retried ==
    ( /\ pc = "done"
      /\ Len(chunks) > 0
      /\ LastChunk.ref = "Detailed mission planning failed"
      /\ \/ raised.kind = "JSONDecodeError"
         \/ raised.msg \in {"No JSON found", "upstream stream failure"} )
        => p3_calls > 1

----------------------------------------------------------------------------
(* Properties of Phase 2's outcome and of the assembled plan               *)

HasMarker(phase, progress) ==
    \E i \in ChunkIndices : IsPhaseMarker(chunks[i], phase, progress)

HasErrorChunk(content) ==
    \E i \in ChunkIndices : chunks[i].type = "error" /\ chunks[i].ref = content

EntriesOf(m) == { m[i] : i \in 1..Len(m) }

\* C13: lookups that return None are no Phase-2 failure: the Phase-2 error chunk
\* appears only after an exception, a finished run that passed Phase 1 without a
\* Phase-2 exception has emitted the progress-60 chunk, and the plan of a
\* successful run carries in metadata.geocoded_locations exactly the entries of
\* the location map whose coordinate is not None.
C13_PartialGeocoding ==
    /\ HasErrorChunk("Location geocoding failed") => raised.kind = "AttributeError"
    /\ (pc = "done" /\ HasMarker(1, 25) /\ raised.kind # "AttributeError")
          => HasMarker(3, 60)
    /\ (pc = "done" /\ HasChunk("plan"))
          => /\ mission_plan.built
             /\ EntriesOf(mission_plan.geocoded_locations)
                  = { e \in EntriesOf(geocoded_locations) : e.coords # NoCoords }
             /\ Len(mission_plan.geocoded_locations)
                  = Cardinality({ i \in 1..Len(geocoded_locations) :
                                    geocoded_locations[i].coords # NoCoords })

\* A successful run whose location map holds a resolved entry and an entry
\* whose lookup returned None.
C13_Witness ==
    /\ pc = "done"
    /\ HasChunk("plan")
    /\ \E e \in EntriesOf(geocoded_locations) : e.coords = NoCoords
    /\ \E e \in EntriesOf(geocoded_locations) : e.coords # NoCoords
    /\ Len(mission_plan.geocoded_locations) < Len(geocoded_locations)

\* The Phase-3 output was parsed and lacks a required field or holds an invalid value.
DefectivePlanParsed ==
    \/ raised = Exc("KeyError", "waypoints", 0)
    \/ /\ plan_data.has_waypoints
       /\ \/ ~plan_data.has_fields
          \/ \E i \in 1..Len(plan_data.waypoints) : ~plan_data.waypoints[i].valid

\* C14: when the parsed Phase-3 output lacks a required field or holds an invalid
\* value, no plan chunk is ever emitted and the finished run holds exactly one
\* error chunk, which is final.
C14_NoPartialPlan ==
    DefectivePlanParsed
       => /\ ~HasChunk("plan")
          /\ pc = "done"
               => /\ Cardinality({ i \in ChunkIndices : chunks[i].type = "error" }) = 1
                  /\ LastChunk.type = "error"
                  /\ LastChunk.is_final

\* A finished run whose Phase-3 output had a valid waypoint, already announced by
\* its status chunk, but lacked a plan field.
C14_Witness ==
    /\ pc = "done"
    /\ plan_data.has_waypoints
    /\ ~plan_data.has_fields
    /\ wp_done = 1
    /\ LastChunk.type = "error"

----------------------------------------------------------------------------
(* Properties of the generator's consumers                                 *)

HasFinalPlanChunk ==
    \E i \in ChunkIndices : chunks[i].type = "plan" /\ chunks[i].is_final

\* C15: generate_mission_plan_simple never raises: it returns one response, with
\* success = true and the plan exactly when the run produced a final plan chunk.
C15_SimpleResponse ==
    pc = "simple_end"
       => /\ response.kind = "returned"
          /\ response.success <=> HasFinalPlanChunk
          /\ response.has_plan <=> HasFinalPlanChunk

----------------------------------------------------------------------------
(* Properties of the stream_text calls                                     *)

\* C16: the Phase-3 call passes the JSON schema if and only if include_reasoning is
\* false, so it never asks for a schema and for reasoning together; the Phase-1
\* call asks for neither.
C16_SchemaXorReasoning ==
    /\ stream_args.phase = 3
          => /\ stream_args.response_schema <=> ~request.include_reasoning
             /\ stream_args.include_reasoning <=> request.include_reasoning
             /\ ~(stream_args.response_schema /\ stream_args.include_reasoning)
    /\ stream_args.phase = 1
          => /\ ~stream_args.response_schema
             /\ ~stream_args.include_reasoning

\* The Phase-3 call of a request that asks for reasoning has been made.
C16_Witness ==
    /\ pc = "p3_stream"
    /\ stream_args.phase = 3
    /\ request.include_reasoning
    /\ stream_args.include_reasoning

\* C17: once a cancellation has been raised into the run (into an LLM call, a
\* geocoding lookup or a backoff sleep) or the consumer has closed the generator,
\* no LLM call is attempted again, no lookup is made and no chunk is emitted.
C17_NothingAfterCancel ==
    [][Cancelled => /\ chunks' = chunks
                    /\ calls' <= calls
                    /\ p3_calls' <= p3_calls
                    /\ pc' \notin {"geocoding", "p2_emit", "done"}]_vars

\* A run cancelled while suspended in a Phase-1 await (the LLM stream or a backoff
\* sleep): the phase-start chunk is all that was emitted.
C17_Witness ==
    /\ pc = "abandoned"
    /\ raised.kind = "CancelledError"
    /\ Len(chunks) = 1
    /\ ~HasChunk("error")

\* C18: the 'done' event of the SSE response comes after every chunk of the run,
\* and the event just before it is the run's final chunk.
C18_DoneAfterFinalChunk ==
    pc = "sse_end"
       => /\ response.kind = "done_event"
          /\ Len(chunks) > 0
          /\ LastChunk.is_final

----------------------------------------------------------------------------
(* Two runs of generate_mission_plan on the one module-level               *)
(* MissionPlanningService, their steps interleaved by the event loop.      *)
(* Each run is followed through its yields and its geocoding lookups; the  *)
(* LLM calls are taken at their results.                                   *)

MaxServiceLocations == 2   \* key_locations entries of a run's Phase-1 result

RunIds == {1, 2}

ServiceNames == {"A", "B"}

\* Faulty variant: sequence and the location map kept on the shared service object.
ServiceFrame(r) == 1

\* The frame that holds run r's locals `sequence`, `structure_data`,
\* `geocoded_locations`: the generator object's own
RunFrame(r) == r

RunRequests ==
    { req \in Requests :
        ~req.include_reasoning /\ req.area_of_interest = 0 /\ req.model = NoModel }

NewFrame == [sequence |-> 0, inner_sequence |-> 0, key_locations |-> << >>,
             geocoded_locations |-> << >>, successful_geocodes |-> 0]

NewCtl == [pc |-> "start", loc_idx |-> 0, in_flight |-> {}]

ServiceInit ==
    /\ NoPipelineRun
    /\ accumulated_content = << >>
    /\ extraction = NoExtraction
    /\ maps_key \in BOOLEAN
    /\ \E reqs \in [RunIds -> RunRequests] :
          runs = [request |-> reqs,
                  ctl |-> [r \in RunIds |-> NewCtl],
                  frame |-> [r \in RunIds |-> NewFrame],
                  out |-> [r \in RunIds |-> << >>]]

serviceFrame == << pc, request, openrouter_key, maps_key, debug_manager,
                   chunks, sequence,
                   inner_sequence, p3_calls, events, accumulated_content,
                   structure_data, geocoded_locations, loc_idx, successful_geocodes,
                   plan_data, wp_done, stream_args, mission_plan, response,
                   extraction, upstream >>

Locals(r) == runs.frame[RunFrame(r)]

\* Run r yields a status chunk numbered by its `sequence`, then `sequence += 1`; fr
\* is the frame as the step leaves it otherwise, c the run's next position.
RunYields(r, fr, c, phase, progress, ref) ==
    /\ runs' = [runs EXCEPT
                  !.out[r] = Append(@, StatusChunk(fr.sequence, phase, progress, ref)),
                  !.frame[RunFrame(r)] = [fr EXCEPT !.sequence = @ + 1],
                  !.ctl[r] = c]
    /\ UNCHANGED serviceFrame
    /\ UNCHANGED wrapperVars

\* Run r takes a step that yields nothing
RunMoves(r, fr, c) ==
    /\ runs' = [runs EXCEPT !.frame[RunFrame(r)] = fr, !.ctl[r] = c]
    /\ UNCHANGED serviceFrame
    /\ UNCHANGED wrapperVars

\* sequence = 0; yield status (progress 5); sequence += 1
SvcStart(r) ==
    /\ runs.ctl[r].pc = "start"
    /\ RunYields(r, [Locals(r) EXCEPT !.sequence = 0],
                 [runs.ctl[r] EXCEPT !.pc = "phase1"], 1, 5 * ProgressScale, "")

\* structure_data = await self._generate_mission_structure(request); yield status
\* (progress 25); sequence += 1
SvcStructure(r) ==
    /\ runs.ctl[r].pc = "phase1"
    /\ \E kl \in SeqsUpTo(ServiceNames, MaxServiceLocations) :
          RunYields(r, [Locals(r) EXCEPT !.key_locations = kl],
                    [runs.ctl[r] EXCEPT !.pc = "p2_start"], 1, 25 * ProgressScale, "")

\* yield status (progress 30); sequence += 1; _geocode_mission_locations starts with
\* geocoded_locations = {} and the caller-supplied entries
SvcP2Start(r) ==
    /\ runs.ctl[r].pc = "p2_start"
    /\ RunYields(r, [Locals(r) EXCEPT
                       !.geocoded_locations = InitialLocations(runs.request[r])],
                 [runs.ctl[r] EXCEPT !.pc = "geocoding", !.loc_idx = 0],
                 2, 30 * ProgressScale, "")

\* The next iteration of the key_locations loop: a name already in the map is
\* skipped, any other is handed to geocode_location, which the loop awaits.
SvcLookupStart(r) ==
    /\ runs.ctl[r].pc = "geocoding"
    /\ runs.ctl[r].in_flight = {}
    /\ runs.ctl[r].loc_idx < Len(Locals(r).key_locations)
    /\ LET name == Locals(r).key_locations[runs.ctl[r].loc_idx + 1] IN
       IF name \in LocationNames(Locals(r).geocoded_locations)
         THEN RunMoves(r, Locals(r), [runs.ctl[r] EXCEPT !.loc_idx = @ + 1])
         ELSE RunMoves(r, Locals(r), [runs.ctl[r] EXCEPT !.in_flight = {name}])

\* geocode_location returns: geocoded_locations[location_name] = coords
SvcLookupReturn(r) ==
    /\ runs.ctl[r].pc = "geocoding"
    /\ \E name \in runs.ctl[r].in_flight, c \in GeocodeResults(maps_key) :
          RunMoves(r,
                   [Locals(r) EXCEPT !.geocoded_locations =
                                        Append(@, [name |-> name, coords |-> c])],
                   [runs.ctl[r] EXCEPT !.in_flight = @ \ {name}, !.loc_idx = @ + 1])

\* return geocoded_locations; successful_geocodes = 0
SvcGeocoded(r) ==
    /\ runs.ctl[r].pc = "geocoding"
    /\ runs.ctl[r].in_flight = {}
    /\ runs.ctl[r].loc_idx = Len(Locals(r).key_locations)
    /\ RunMoves(r, [Locals(r) EXCEPT !.successful_geocodes = 0],
                [runs.ctl[r] EXCEPT !.pc = "p2_emit", !.loc_idx = 0])

\* The loop over geocoded_locations.items() up to its next yield
SvcEmitLocation(r) ==
    /\ runs.ctl[r].pc = "p2_emit"
    /\ LET after == ResolvedAfter(Locals(r).geocoded_locations, runs.ctl[r].loc_idx)
           j == CHOOSE k \in after : \A l \in after : k <= l
           ch == LocationChunk(0, Locals(r).successful_geocodes + 1,
                               Len(Locals(r).geocoded_locations),
                               Locals(r).geocoded_locations[j].name)
       IN
       /\ after # {}
       /\ RunYields(r, [Locals(r) EXCEPT !.successful_geocodes = @ + 1],
                    [runs.ctl[r] EXCEPT !.loc_idx = j], ch.phase, ch.progress, ch.ref)

\* yield status (progress 55); sequence += 1
SvcP2Summary(r) ==
    /\ runs.ctl[r].pc = "p2_emit"
    /\ ResolvedAfter(Locals(r).geocoded_locations, runs.ctl[r].loc_idx) = {}
    /\ RunYields(r, Locals(r), [runs.ctl[r] EXCEPT !.pc = "p3_start", !.loc_idx = 0],
                 2, 55 * ProgressScale, "")

\* yield status (progress 60); sequence += 1; the inner generator starts with
\* sequence = start_sequence
SvcP3Start(r) ==
    /\ runs.ctl[r].pc = "p3_start"
    /\ runs' = [runs EXCEPT
                  !.out[r] = Append(@, StatusChunk(Locals(r).sequence, 3,
                                                   60 * ProgressScale, "")),
                  !.frame[RunFrame(r)] =
                      [Locals(r) EXCEPT !.sequence = @ + 1,
                                        !.inner_sequence = Locals(r).sequence + 1],
                  !.ctl[r] = [runs.ctl[r] EXCEPT !.pc = "p3_plan"]]
    /\ UNCHANGED serviceFrame
    /\ UNCHANGED wrapperVars

\* The inner generator yields the plan chunk with its own sequence, the outer one
\* re-yields it and does its `sequence += 1`
SvcPlan(r) ==
    /\ runs.ctl[r].pc = "p3_plan"
    /\ runs' = [runs EXCEPT
                  !.out[r] = Append(@, Chunk("plan", Locals(r).inner_sequence, TRUE, 0,
                                             100 * ProgressScale, "")),
                  !.frame[RunFrame(r)] = [Locals(r) EXCEPT !.sequence = @ + 1],
                  !.ctl[r] = [runs.ctl[r] EXCEPT !.pc = "done"]]
    /\ UNCHANGED serviceFrame
    /\ UNCHANGED wrapperVars

ServiceNext ==
    \E r \in RunIds :
        \/ SvcStart(r) \/ SvcStructure(r) \/ SvcP2Start(r)
        \/ SvcLookupStart(r) \/ SvcLookupReturn(r) \/ SvcGeocoded(r)
        \/ SvcEmitLocation(r) \/ SvcP2Summary(r) \/ SvcP3Start(r) \/ SvcPlan(r)

ServiceSpec == ServiceInit /\ [][ServiceNext]_vars

\* The event loop runs a task that is ready.
FairServiceSpec == ServiceSpec /\ WF_vars(ServiceNext)

\* The names run r may hold in its location map: those of its own request and of
\* its own Phase-1 result
OwnNames(r) ==
    LocationNames(InitialLocations(runs.request[r]))
    \cup { runs.frame[r].key_locations[i] : i \in 1..Len(runs.frame[r].key_locations) }

\* Each run's chunks are numbered 0, 1, 2, ... and its location map holds its own names
RunsKeepOwnState ==
    \A r \in RunIds :
        /\ \A i \in 1..Len(runs.out[r]) : runs.out[r][i].sequence = i - 1
        /\ LocationNames(runs.frame[r].geocoded_locations) \subseteq OwnNames(r)
        /\ runs.ctl[r].pc \in {"p2_emit", "p3_start", "p3_plan", "done"}
              => LocationNames(runs.frame[r].geocoded_locations) = OwnNames(r)

\* C19: under every interleaving of two runs on the shared service, a step leaves
\* the sequence counter, the location map and the emitted chunks of the run that
\* did not take it unchanged, each run's chunks carry 0, 1, 2, ... with no number
\* used twice, and each run's location map is built from its own request and its
\* own Phase-1 result.
C19_RunsIsolated ==
    [][ /\ \A r \in RunIds :
              runs'.ctl[r] = runs.ctl[r]
                 => /\ runs'.frame[r] = runs.frame[r]
                    /\ runs'.out[r] = runs.out[r]
        /\ RunsKeepOwnState' ]_vars

\* Run 1 has finished while run 2, which was given other locations, still has a
\* lookup in flight.
C19_Witness ==
    /\ runs.ctl[1].pc = "done"
    /\ runs.ctl[2].pc = "geocoding"
    /\ runs.ctl[2].in_flight # {}
    /\ runs.frame[1].key_locations = << "A" >>
    /\ runs.frame[2].key_locations = << "B", "A" >>
    /\ Len(runs.out[1]) > Len(runs.out[2])

\* Run r enters the key_locations loop with two distinct names to look up.
TwoLookupsAhead(r) ==
    /\ runs.ctl[r].pc = "geocoding"
    /\ runs.ctl[r].loc_idx = 0
    /\ runs.ctl[r].in_flight = {}
    /\ Len(runs.frame[r].key_locations) = 2
    /\ runs.frame[r].key_locations[1] # runs.frame[r].key_locations[2]

\* C20: Phase 2 issues the lookups for distinct names concurrently: a run with two
\* distinct names to look up comes to have both lookups in flight together.
C20_LookupsOverlap ==
    \A r \in RunIds :
        [](TwoLookupsAhead(r) => <>(Cardinality(runs.ctl[r].in_flight) >= 2))

----------------------------------------------------------------------------
(* Properties of the progress values                                       *)

\* The position in map m of the entry named n
PositionOf(m, n) == CHOOSE j \in 1..Len(m) : m[j].name = n

\* C21: the per-location chunk of a map entry carries 30 + 25 * (completed / total),
\* completed being the number of map entries handled up to and including that
\* entry, resolved or not; so the chunk of the last entry carries 55.
C21_ProgressCountsCompleted ==
    \A r \in RunIds :
        \A i \in 1..Len(runs.out[r]) :
            (runs.out[r][i].phase = 2 /\ runs.out[r][i].ref # "")
               => runs.out[r][i].progress
                    = GeocodeProgress(
                          PositionOf(runs.frame[r].geocoded_locations, runs.out[r][i].ref),
                          Len(runs.frame[r].geocoded_locations))

----------------------------------------------------------------------------
(* Properties of the Phase-3 call and of the plan's metadata               *)

\* C23: metadata.generated_by of a plan equals the model identifier passed to the
\* Phase-3 stream_text call, whether request.model is given or absent.
C23_GeneratedByIsCallModel ==
    mission_plan.built => mission_plan.generated_by = stream_args.model

\* The lines of the Phase-3 prompt that name the location n
LinesNaming(n) ==
    { i \in 1..Len(stream_args.prompt_locations) : stream_args.prompt_locations[i].name = n }

\* C24: every entry of the location map appears exactly once in the prompt of the
\* Phase-3 call: with its coordinates if it is resolved, flagged
\* 'GEOCODING FAILED - use fallback coordinates' if it is not.
C24_PromptListsEveryLocation ==
    stream_args.phase = 3
       => \A j \in 1..Len(geocoded_locations) :
             /\ Cardinality(LinesNaming(geocoded_locations[j].name)) = 1
             /\ \A i \in LinesNaming(geocoded_locations[j].name) :
                   IF geocoded_locations[j].coords # NoCoords
                     THEN /\ stream_args.prompt_locations[i].text = "coordinates"
                          /\ stream_args.prompt_locations[i].coords
                               = geocoded_locations[j].coords
                     ELSE stream_args.prompt_locations[i].text
                            = "GEOCODING FAILED - use fallback coordinates"

\* The Phase-3 call was made with a resolved and an unresolved entry in the map.
C24_Witness ==
    /\ stream_args.phase = 3
    /\ \E j \in 1..Len(geocoded_locations) : geocoded_locations[j].coords = NoCoords
    /\ \E j \in 1..Len(geocoded_locations) : geocoded_locations[j].coords # NoCoords
    /\ Len(stream_args.prompt_locations) = Len(geocoded_locations)

----------------------------------------------------------------------------
(* The waypoint loop of Phase 3 on payloads of several waypoints           *)

MaxPlanWaypoints == 3    \* waypoints in the payload the loop starts with

\* The run has reached Phase 3 with an empty location map and _generate_detailed_
\* mission_plan has parsed a payload with a waypoints list.
PlanInit ==
    /\ pc = "p3_waypoints"
    /\ request \in { req \in Requests : /\ ~req.include_reasoning
                                        /\ ~req.start_position
                                        /\ req.area_of_interest = 0 }
    /\ openrouter_key = TRUE
    /\ debug_manager = NewDebugManager
    /\ maps_key \in BOOLEAN
    /\ chunks = << StatusChunk(0, 1, 5 * ProgressScale, ""),
                   StatusChunk(1, 1, 25 * ProgressScale, ""),
                   StatusChunk(2, 2, 30 * ProgressScale, ""),
                   StatusChunk(3, 2, 55 * ProgressScale, ""),
                   StatusChunk(4, 3, 60 * ProgressScale, "") >>
    /\ sequence = 5
    /\ inner_sequence = 5
    /\ p3_calls = 1
    /\ events = 0
    /\ accumulated_content = << >>
    /\ structure_data = NoStructure
    /\ geocoded_locations = << >>
    /\ loc_idx = 0
    /\ successful_geocodes = 0
    /\ \E w \in SeqsUpTo(WaypointEntries, MaxPlanWaypoints), f \in BOOLEAN :
          plan_data = [has_waypoints |-> TRUE, waypoints |-> w, has_fields |-> f]
    /\ wp_done = 0
    /\ stream_args = DetailedCall(request, geocoded_locations)
    /\ mission_plan = NoMissionPlan
    /\ response = NoResponse
    /\ extraction = NoExtraction
    /\ runs = NoRuns
    /\ upstream = NoUpstream
    /\ w_pc = "idle"
    /\ max_retries = P1MaxRetries
    /\ base_delay = P1BaseDelay
    /\ max_delay = DefaultMaxDelay
    /\ backoff_factor = DefaultBackoffFactor
    /\ attempt = 0
    /\ delay = 0
    /\ last_exception = NoException
    /\ calls = 0
    /\ sleeps = << >>
    /\ failures = << >>
    /\ raised = NoException

PlanNext == P3Waypoint \/ P3Summary \/ P3Plan \/ P3Failed

PlanSpec == PlanInit /\ [][PlanNext]_vars

\* C22: the waypoint ids of every plan are pairwise distinct, whatever ids the
\* payload carries (repeated, or omitted and generated).
C22_WaypointIdsUnique ==
    mission_plan.built
       => \A i, j \in 1..Len(mission_plan.waypoints) :
             i # j => mission_plan.waypoints[i] # mission_plan.waypoints[j]

----------------------------------------------------------------------------
(* Properties of the geocoder without its credential                       *)

\* The map entry of the location named n
EntryNamed(n) == geocoded_locations[PositionOf(geocoded_locations, n)]

\* Every lookup so far was answered None without a request to the provider, and the
\* entry it produced is unresolved.
LookupsDegraded ==
    \A i \in 1..Len(upstream.lookups) :
        /\ ~upstream.lookups[i].network
        /\ upstream.lookups[i].name \in LocationNames(geocoded_locations)
              => EntryNamed(upstream.lookups[i].name).coords = NoCoords

\* A step that makes a lookup raises nothing, a step that enters Phase 2's handler
\* made no lookup, and the loop over the map leads on to Phase 3.
LookupsHarmless ==
    /\ Len(upstream'.lookups) > Len(upstream.lookups)
          => raised' = raised /\ pc' \in {"geocoding", "p2_emit"}
    /\ (pc # "p2_raised" /\ pc' = "p2_raised")
          => upstream'.lookups = upstream.lookups /\ raised'.kind = "AttributeError"
    /\ pc = "p2_emit" => pc' \in {"p2_emit", "p3_start", "abandoned"}

\* C25: with no geocoding credential every geocode_location call returns None without
\* a network call and without raising, the lookups set off no Phase-2 error chunk,
\* and the run goes on to Phase 3 with every location the LLM named unresolved.
C25_NoCredentialDegrades ==
    /\ [](~maps_key => LookupsDegraded)
    /\ [][~maps_key => LookupsHarmless]_vars

\* Without the credential the run is in Phase 3, after a lookup, with no error chunk.
C25_Witness ==
    /\ ~maps_key
    /\ pc = "p3_stream"
    /\ Len(upstream.lookups) = 1
    /\ EntryNamed(upstream.lookups[1].name).coords = NoCoords
    /\ \A i \in 1..Len(chunks) : chunks[i].type # "error"

----------------------------------------------------------------------------
(* Termination                                                             *)

\* The order of the positions of generate_mission_plan and of its consumers
PcRank(p) ==
    CASE p = "start" -> 0
      [] p = "phase1" -> 1
      [] p = "p2_start" -> 2
      [] p = "geocoding" -> 3
      [] p \in {"p2_emit", "p2_raised"} -> 4
      [] p = "p3_start" -> 5
      [] p = "p3_call" -> 6
      [] p = "p3_stream" -> 7
      [] p = "p3_waypoints" -> 8
      [] p \in {"p3_plan", "p3_raised"} -> 9
      [] p = "done" -> 10
      [] OTHER -> 11

\* The order of the wrapper's positions within one value of `calls`
WrapperRank(w) ==
    CASE w = "sleep" -> 1
      [] w = "call" -> 2
      [] w \in {"returned", "raised"} -> 3
      [] OTHER -> 0

\* A number that every step of a run increases: the position first, then the calls
\* made, the wrapper's position and the loop counters.
Measure ==
    PcRank(pc) * 1000 + calls * 100 + WrapperRank(w_pc) * 10
      + events + loc_idx + wp_done

\* No name was looked up twice, and none that the map had from the request.
LookupsOncePerName ==
    /\ \A i, j \in 1..Len(upstream.lookups) :
          i # j => upstream.lookups[i].name # upstream.lookups[j].name
    /\ \A i \in 1..Len(upstream.lookups) :
          upstream.lookups[i].name \notin LocationNames(InitialLocations(request))
    /\ Len(upstream.lookups) <= Len(structure_data.key_locations)
          \/ pc \in {"abandoned", "done", "simple_end", "sse_end"}

\* C26: every run ends after a bounded number of upstream calls: at most
\* max_retries + 1 = 6 Phase-1 LLM calls, at most one lookup per distinct location
\* name and one Phase-3 LLM call; every step moves the run forward (a bounded measure
\* grows) and no step goes back to an earlier phase.
C26_Terminates ==
    /\ [](/\ calls <= max_retries + 1
          /\ max_retries + 1 = 6
          /\ p3_calls <= 1
          /\ LookupsOncePerName
          /\ Measure < 12 * 1000)
    /\ [][Measure' > Measure /\ PcRank(pc') >= PcRank(pc)]_vars

\* A run that made all six Phase-1 calls has ended.
C26_Witness == pc = "done" /\ calls = 6 /\ Len(sleeps) = 5

----------------------------------------------------------------------------
(* The LLM streams with their events logged                                *)

\* The events and parsed texts of the streams are logged; the run is about to start
\* Phase 1, or has reached Phase 3 with an empty location map.
StreamInit ==
    /\ request = [include_reasoning |-> TRUE, start_position |-> FALSE,
                  area_of_interest |-> 0, model |-> NoModel]
    /\ openrouter_key = TRUE
    /\ debug_manager = NewDebugManager
    /\ maps_key = FALSE
    /\ p3_calls = 0
    /\ inner_sequence = 0
    /\ events = 0
    /\ accumulated_content = << >>
    /\ structure_data = NoStructure
    /\ geocoded_locations = << >>
    /\ loc_idx = 0
    /\ successful_geocodes = 0
    /\ plan_data = NoPlanData
    /\ wp_done = 0
    /\ mission_plan = NoMissionPlan
    /\ response = NoResponse
    /\ extraction = NoExtraction
    /\ runs = NoRuns
    /\ upstream = [NoUpstream EXCEPT !.trace = TRUE]
    /\ max_retries = P1MaxRetries
    /\ base_delay = P1BaseDelay
    /\ max_delay = DefaultMaxDelay
    /\ backoff_factor = DefaultBackoffFactor
    /\ attempt = 0
    /\ last_exception = NoException
    /\ calls = 0
    /\ sleeps = << >>
    /\ failures = << >>
    /\ raised = NoException
    /\ \/ /\ pc = "start"
          /\ chunks = << >>
          /\ sequence = 0
          /\ stream_args = NoCall
          /\ w_pc = "call"
          /\ delay = InitialDelay(P1BaseDelay, DefaultMaxDelay)
       \/ /\ pc = "p3_call"
          /\ chunks = << StatusChunk(0, 1, 5 * ProgressScale, ""),
                         StatusChunk(1, 1, 25 * ProgressScale, ""),
                         StatusChunk(2, 2, 30 * ProgressScale, ""),
                         StatusChunk(3, 2, 55 * ProgressScale, ""),
                         StatusChunk(4, 3, 60 * ProgressScale, "") >>
          /\ sequence = 5
          /\ stream_args = StructureCall(request)
          /\ w_pc = "idle"
          /\ delay = 0

\* The steps of the two LLM calls: Phase 1 with its retries up to its last chunk,
\* Phase 3 up to the parse of its content.
StreamNext ==
    \/ P1Start \/ P1Invoke \/ P1Event \/ P1StreamEnd \/ P1StreamError \/ P1Sleep
    \/ P1Summary \/ P1Failed
    \/ P3Call \/ P3Event \/ P3StreamEnd \/ P3StreamError \/ P3Failed

StreamSpec == StreamInit /\ [][StreamNext]_vars

RECURSIVE ContentOf(_)
\* The content deltas of the logged events, concatenated in arrival order
ContentOf(log) ==
    IF log = << >> THEN << >>
    ELSE ContentOf(SubSeq(log, 1, Len(log) - 1)) \o log[Len(log)].content

\* The logged events that carry the finish signal
StopEvents == { i \in 1..Len(upstream.events) : upstream.events[i].finish = "stop" }

\* C27: in both LLM phases the content is parsed only when the event with the finish
\* signal has arrived, the text parsed is the concatenation, in arrival order, of the
\* content deltas of all events of the call up to and including that event, and no
\* event is consumed after it.
C27_ParsedAtFinishOnly ==
    /\ Len(upstream.parsed) = (IF StopEvents = {} THEN 0 ELSE 1)
    /\ StopEvents \subseteq {Len(upstream.events)}
    /\ \A i \in 1..Len(upstream.parsed) :
          upstream.parsed[i] = ContentOf(upstream.events)
    /\ StopEvents = {} /\ stream_args.phase # 0 /\ events > 0
          => accumulated_content = ContentOf(upstream.events)

\* Phase 3 has parsed a text that came in two non-empty deltas.
C27_Witness ==
    /\ stream_args.phase = 3
    /\ Len(upstream.events) = 2
    /\ upstream.events[1].content # << >>
    /\ upstream.events[2].content # << >>
    /\ upstream.parsed = << upstream.events[1].content \o upstream.events[2].content >>

\* The contents of the reasoning chunks, in stream order
ReasoningForwarded ==
    LET c == SelectSeq(chunks, LAMBDA ch : ch.type = "reasoning")
    IN  [i \in 1..Len(c) |-> c[i].ref]

\* The non-empty reasoning deltas of the logged events, in arrival order
ReasoningReceived ==
    LET e == SelectSeq(upstream.events, LAMBDA ev : ev.reasoning # NoReasoning)
    IN  [i \in 1..Len(e) |-> e[i].reasoning]

\* C28: each non-empty reasoning delta of Phase 3 has produced exactly one reasoning
\* chunk with that delta as its content by the time the next event is consumed: at
\* every point the contents of the reasoning chunks, in order, are the reasoning
\* deltas received, in order.
C28_ReasoningVerbatim == ReasoningForwarded = ReasoningReceived

\* Two different reasoning deltas have been forwarded.
C28_Witness ==
    /\ Len(ReasoningForwarded) = 2
    /\ ReasoningForwarded[1] # ReasoningForwarded[2]
    /\ pc = "p3_stream"

\* The chunks that carry a progress value, in the order they were yielded
ProgressChunks == SelectSeq(chunks, LAMBDA ch : ch.type \in {"status", "plan"})

\* The range of the progress values of a chunk of the given type and phase
InPhaseRange(ch) ==
    CASE ch.type = "plan" -> ch.progress = 100 * ProgressScale
      [] ch.phase = 1 -> ch.progress \in {5 * ProgressScale, 25 * ProgressScale}
      [] ch.phase = 2 -> /\ 30 * ProgressScale <= ch.progress
                         /\ ch.progress <= 55 * ProgressScale
      [] ch.phase = 3 -> /\ 60 * ProgressScale <= ch.progress
                         /\ ch.progress < 100 * ProgressScale
      [] OTHER -> FALSE

\* C29: the progress values of successive status and plan chunks never decrease,
\* in the order of the stream and in the order of their sequence numbers, and stay
\* in the range of their phase: 5 and 25 in phase 1, [30, 55] in phase 2, [60, 100]
\* in phase 3, with 100 on the plan chunk only.
C29_ProgressMonotonic ==
    /\ \A i \in 1..Len(ProgressChunks) : InPhaseRange(ProgressChunks[i])
    /\ \A i, j \in 1..Len(ProgressChunks) :
          (i < j \/ ProgressChunks[i].sequence < ProgressChunks[j].sequence)
             => ProgressChunks[i].progress <= ProgressChunks[j].progress

\* A finished stream with a per-location chunk, a per-waypoint chunk and the plan.
C29_Witness ==
    /\ pc = "done"
    /\ \E i \in 1..Len(chunks) : chunks[i].phase = 2 /\ chunks[i].ref # ""
    /\ \E i \in 1..Len(chunks) : chunks[i].phase = 3 /\ chunks[i].ref # ""
    /\ \E i \in 1..Len(chunks) : chunks[i].type = "plan"
    /\ Len(geocoded_locations) = 3

----------------------------------------------------------------------------
(* The two extractions on arbitrary texts                                  *)

MaxTextLen == 3          \* tokens of an accumulated text

\* The characters of a text: braces, a key, a scalar and prose
TextTokens == {"{", "}", "k", "v", "p"}

\* An accumulated text at the finish signal, whatever the LLM wrote
TextInit ==
    /\ NoPipelineRun
    /\ maps_key = TRUE
    /\ runs = NoRuns
    /\ accumulated_content \in SeqsUpTo(TextTokens, MaxTextLen)
    /\ extraction = NoExtraction

TextSpec == TextInit /\ [][ExtractNext]_vars

\* C30: Phase 1 and Phase 3 extract alike: on the same text both fail or both yield
\* the same value; without a '{' both fail with 'No JSON found', and when the brace
\* depth never returns to zero both fail with a parse failure.
C30_SameExtraction ==
    (extraction.phase1 # NotRun /\ extraction.phase3 # NotRun)
       => /\ extraction.phase1.kind = extraction.phase3.kind
          /\ extraction.phase1.text = extraction.phase3.text
          /\ FindBrace(accumulated_content) = 0
                => /\ extraction.phase1.kind = "ValueError"
                   /\ extraction.phase3.kind = "ValueError"
          /\ (/\ FindBrace(accumulated_content) # 0
              /\ BraceSlice(accumulated_content, FindBrace(accumulated_content)) = << >>)
                => /\ extraction.phase1.kind = "JSONDecodeError"
                   /\ extraction.phase3.kind = "JSONDecodeError"

----------------------------------------------------------------------------
(* geocode_location on its own                                             *)

MaxResults == 2          \* entries of the provider's result list

\* (37.7749, -122.4194), the coordinates returned when aiohttp cannot be imported
FallbackCoords == <<37, -122>>

\* An entry of data['results']: its (lat, lng), or NoCoords for an entry without
\* a geometry (reading it raises KeyError)
ResultEntries == { <<1, 2>>, <<3, 4>>, NoCoords }

\* How the environment answers one call: whether aiohttp can be imported, whether
\* the request goes through, the HTTP status, data['status'] ("" when the key is
\* missing) and data['results'].
Providers ==
    [aiohttp : BOOLEAN, transport : {"ok", "ClientError"}, http : {200, 403},
     status : {"OK", "ZERO_RESULTS", ""},
     results : SeqsUpTo(ResultEntries, MaxResults)]

\* geocode_location(name) for an API key and an answer of the environment: the
\* value returned, whether a request was sent and the exception that leaves the
\* function (none: `except Exception` returns None).
GeocodeLocation(key, p) ==
    IF ~key THEN [coords |-> NoCoords, network |-> FALSE, raised |-> NoException]
    ELSE IF ~p.aiohttp
      THEN [coords |-> FallbackCoords, network |-> FALSE, raised |-> NoException]
    ELSE IF p.transport # "ok"
      THEN [coords |-> NoCoords, network |-> TRUE, raised |-> NoException]
    ELSE IF p.http # 200
      THEN [coords |-> NoCoords, network |-> TRUE, raised |-> NoException]
    ELSE IF p.status = "OK" /\ p.results # << >> /\ p.results[1] # NoCoords
      THEN [coords |-> p.results[1], network |-> TRUE, raised |-> NoException]
    ELSE [coords |-> NoCoords, network |-> TRUE, raised |-> NoException]

\* A service with or without its key, about to be asked for the location "A".
GeocodeInit ==
    /\ NoPipelineState
    /\ maps_key \in BOOLEAN
    /\ accumulated_content = << >>
    /\ extraction = NoExtraction
    /\ runs = NoRuns
    /\ \E p \in Providers : upstream = [NoUpstream EXCEPT !.provider = p]

\* coords = await self.geocoding_service.geocode_location("A")
GeocodeCall ==
    /\ upstream.lookups = << >>
    /\ LET r == GeocodeLocation(maps_key, upstream.provider) IN
       /\ geocoded_locations' = << [name |-> "A", coords |-> r.coords] >>
       /\ upstream' = [upstream EXCEPT
                         !.lookups = << [name |-> "A", network |-> r.network] >>]
       /\ raised' = r.raised
    /\ UNCHANGED << pc, request, openrouter_key, maps_key, debug_manager,
                    chunks, sequence,
                    inner_sequence, p3_calls, events, accumulated_content,
                    structure_data, loc_idx, successful_geocodes, plan_data, wp_done,
                    stream_args, mission_plan, response, extraction, runs >>
    /\ UNCHANGED << w_pc, max_retries, base_delay, max_delay, backoff_factor,
                    attempt, delay, last_exception, calls, sleeps, failures >>

GeocodeSpec == GeocodeInit /\ [][GeocodeCall]_vars

\* The provider answered HTTP 200 with status OK and a non-empty result list.
ProviderFound ==
    /\ maps_key
    /\ upstream.provider.aiohttp
    /\ upstream.provider.transport = "ok"
    /\ upstream.provider.http = 200
    /\ upstream.provider.status = "OK"
    /\ upstream.provider.results # << >>

----------------------------------------------------------------------------
(* Phase 2 on structures of several key_locations                          *)

MaxLocateEntries == 3    \* key_locations entries of the structure Phase 2 starts with

\* key_locations entries: no name, two plain names, names equal to keys the request
\* may have put into the map, and an entry that is not an object
LocateEntries == LocationEntries \cup {"B", AoiKey(1)}

\* Phase 1 has returned a structure with the key_locations kl and its summary
\* chunk is out.
AtPhase2(req, kl, u) ==
    /\ pc = "p2_start"
    /\ request = req
    /\ openrouter_key = TRUE
    /\ debug_manager = NewDebugManager
    /\ maps_key \in BOOLEAN
    /\ chunks = << StatusChunk(0, 1, 5 * ProgressScale, ""),
                   StatusChunk(1, 1, 25 * ProgressScale, "") >>
    /\ sequence = 2
    /\ inner_sequence = 0
    /\ p3_calls = 0
    /\ events = 0
    /\ accumulated_content = << >>
    /\ structure_data = [sized |-> TRUE, key_locations |-> kl]
    /\ geocoded_locations = << >>
    /\ loc_idx = 0
    /\ successful_geocodes = 0
    /\ plan_data = NoPlanData
    /\ wp_done = 0
    /\ stream_args = StructureCall(request)
    /\ mission_plan = NoMissionPlan
    /\ response = NoResponse
    /\ extraction = NoExtraction
    /\ runs = NoRuns
    /\ upstream = u
    /\ w_pc = "idle"
    /\ max_retries = P1MaxRetries
    /\ base_delay = P1BaseDelay
    /\ max_delay = DefaultMaxDelay
    /\ backoff_factor = DefaultBackoffFactor
    /\ attempt = 0
    /\ delay = 0
    /\ last_exception = NoException
    /\ calls = 0
    /\ sleeps = << >>
    /\ failures = << >>
    /\ raised = NoException

LocateInit ==
    \E req \in { r \in Requests : ~r.include_reasoning /\ r.model = NoModel },
       kl \in SeqsUpTo(LocateEntries, MaxLocateEntries) :
       AtPhase2(req, kl, NoUpstream)

LocateNext == P2Start \/ GeocodeEntry \/ P2EmitLocation \/ P2Summary \/ P2Failed

LocateSpec == LocateInit /\ [][LocateNext]_vars

\* How many key_locations entries the loop of _geocode_mission_locations has handled
\* (the loop stops at an entry that is not an object)
EntriesHandled ==
    IF pc = "p2_start" THEN 0
    ELSE IF pc = "geocoding" \/ raised # NoException THEN loc_idx
    ELSE Len(structure_data.key_locations)

RECURSIVE FirstMentions(_, _)
\* The non-empty names of the entries kl, each once, in order of first mention,
\* leaving out those in `known`
FirstMentions(kl, known) ==
    IF kl = << >> THEN << >>
    ELSE LET rest == FirstMentions(SubSeq(kl, 1, Len(kl) - 1), known)
             n == kl[Len(kl)]
         IN  IF n = "" \/ n \in known \/ n \in { rest[i] : i \in 1..Len(rest) }
               THEN rest ELSE Append(rest, n)

\* The map once the request's entries are in and EntriesHandled key_locations
\* entries have been handled
MapBuilt ==
    LET first == InitialLocations(request)
        names == FirstMentions(SubSeq(structure_data.key_locations, 1, EntriesHandled),
                               LocationNames(first))
    IN  /\ Len(geocoded_locations) = Len(first) + Len(names)
        /\ SubSeq(geocoded_locations, 1, Len(first)) = first
        /\ request.start_position
              => geocoded_locations[1] = [name |-> "start_position", coords |-> StartCoords]
        /\ \A i \in 1..request.area_of_interest :
              \E j \in 1..Len(first) :
                 geocoded_locations[j] = [name |-> "aoi_point_" \o ToString(i),
                                          coords |-> AoiCoords(i)]
        /\ Len(upstream.lookups) = Len(names)
        /\ \A i \in 1..Len(names) :
              /\ upstream.lookups[i].name = names[i]
              /\ geocoded_locations[Len(first) + i].name = names[i]

\* C32: the request's start position and area-of-interest points are in the map
\* under 'start_position' and 'aoi_point_<i>' without a lookup; each distinct
\* non-empty key_locations name not in the map is looked up exactly once, in order
\* of first mention; no entry of the map is ever overwritten or dropped, so a name
\* whose lookup returned None stays in the map as None.
C32_MapConstruction ==
    /\ [](pc # "p2_start" => MapBuilt)
    /\ [][pc # "p2_start"
             => /\ Len(geocoded_locations') >= Len(geocoded_locations)
                /\ \A i \in 1..Len(geocoded_locations) :
                      geocoded_locations'[i] = geocoded_locations[i]
                /\ Len(upstream.lookups') - Len(upstream.lookups)
                      = Len(geocoded_locations') - Len(geocoded_locations)]_vars

\* Three key_locations entries were handled with one lookup: the name was mentioned
\* twice, its lookup returned None, and the third entry names a key of the request.
C32_Witness ==
    /\ pc = "p2_emit"
    /\ request.start_position
    /\ request.area_of_interest = 1
    /\ structure_data.key_locations = << "A", "A", "start_position" >>
    /\ Len(upstream.lookups) = 1
    /\ geocoded_locations[3] = [name |-> "A", coords |-> NoCoords]

\* The per-location status chunks emitted so far
LocationChunks == SelectSeq(chunks, LAMBDA ch : ch.phase = 2 /\ ch.ref # "")

\* The names of the map entries whose coordinate is not None, in map order
NonNullNames ==
    LET keep == SelectSeq(geocoded_locations, LAMBDA e : e.coords # NoCoords)
    IN  [i \in 1..Len(keep) |-> keep[i].name]

\* Position of a name in the log of completed lookups (0: never looked up)
LookupRank(n) ==
    IF \E i \in 1..Len(upstream.lookups) : upstream.lookups[i].name = n
      THEN CHOOSE i \in 1..Len(upstream.lookups) : upstream.lookups[i].name = n
      ELSE 0

\* The phase-2 summary chunk is out.
SummaryOut == pc = "p3_start"

\* C33: Phase 2 emits one per-location chunk for each map entry whose coordinate is
\* not None and none for a None entry, those of looked-up names in the order in
\* which their lookups completed; the progress-55 summary chunk comes after all of
\* them, and the successes it reports equal the number of per-location chunks, the
\* total the size of the map.
C33_LocationChunks ==
    /\ Len(LocationChunks) <= Len(NonNullNames)
    /\ \A i \in 1..Len(LocationChunks) : LocationChunks[i].ref = NonNullNames[i]
    /\ \A i, j \in 1..Len(LocationChunks) :
          (i < j /\ LookupRank(LocationChunks[j].ref) > 0)
             => LookupRank(LocationChunks[i].ref) < LookupRank(LocationChunks[j].ref)
    /\ Len(LocationChunks) = successful_geocodes
    /\ SummaryOut
          => /\ Len(LocationChunks) = Len(NonNullNames)
             /\ chunks[Len(chunks)] = StatusChunk(sequence - 1, 2, 55 * ProgressScale, "")
             /\ \A i \in 1..(Len(chunks) - 1) :
                   chunks[i].phase = 2 => chunks[i].sequence < sequence - 1
             /\ successful_geocodes <= Len(geocoded_locations)

\* The summary is out after two per-location chunks (the start position and a
\* looked-up name), with a None entry between them that got no chunk.
C33_Witness ==
    /\ SummaryOut
    /\ Len(LocationChunks) = 2
    /\ Len(geocoded_locations) = 3
    /\ geocoded_locations[2].coords = NoCoords
    /\ LocationChunks[1].ref = "start_position"
    /\ LookupRank(LocationChunks[2].ref) = 2

----------------------------------------------------------------------------
(* A run from Phase 2 to its end, the Phase-3 events logged                *)

\* Phase 1 is over and the service has its Maps key; what the Phase-3 stream delivers
\* is logged.
TallyInit ==
    \E req \in { r \in Requests : /\ r.include_reasoning
                                   /\ r.area_of_interest = 0
                                   /\ r.model = NoModel },
       kl \in SeqsUpTo({"A", BadEntry}, MaxKeyLocations) :
       /\ AtPhase2(req, kl, [NoUpstream EXCEPT !.trace = TRUE])
       /\ maps_key = TRUE

TallyNext ==
    \/ P2Start \/ GeocodeEntry \/ P2EmitLocation \/ P2Summary \/ P2Failed
    \/ P3Start \/ P3Call \/ P3Event \/ P3StreamEnd \/ P3StreamError
    \/ P3Waypoint \/ P3Summary \/ P3Plan \/ P3Failed

TallySpec == TallyInit /\ [][TallyNext]_vars

\* The run ended with the plan chunk.
PlanDelivered == pc = "done" /\ mission_plan.built

\* L: the map entries whose coordinate is not None
NonNullCount == Cardinality({ i \in 1..Len(geocoded_locations) :
                                geocoded_locations[i].coords # NoCoords })

\* R: the non-empty reasoning deltas of the events the Phase-3 stream delivered, the
\* event that carries the finish signal included (its delta is handled before
\* finish_reason is looked at; nothing is read after it)
ReasoningCount == Cardinality({ i \in 1..Len(upstream.events) :
                                  upstream.events[i].reasoning # NoReasoning })

\* The status chunks of the waypoints
WaypointChunks == SelectSeq(chunks, LAMBDA ch : ch.phase = 3 /\ ch.ref # "")

C34_WitnessNone ==
    /\ PlanDelivered
    /\ NonNullCount = 0
    /\ ReasoningCount = 0
    /\ Len(plan_data.waypoints) = 0
    /\ Len(chunks) = 7

----------------------------------------------------------------------------
(* The decorator when an attempt succeeds                                  *)

\* C35: when the wrapped callable first succeeds on attempt k, after k failures that
\* were each retried, the wrapper has invoked it exactly k + 1 times and slept k
\* times; it returns in the step of that invocation, raising nothing, and makes no
\* invocation or sleep afterwards.
C35_ReturnsFirstSuccess ==
    /\ [](w_pc = "returned"
             => /\ calls = attempt + 1
                /\ Len(failures) = attempt
                /\ \A i \in 1..attempt : failures[i].id = i
                /\ Len(sleeps) = attempt
                /\ raised = NoException)
    /\ [][w_pc' = "returned"
             => /\ w_pc = "call"
                /\ calls' = calls + 1
                /\ attempt' = attempt
                /\ UNCHANGED << failures, sleeps >>]_vars
    /\ [][w_pc # "returned"]_vars

\* The callable succeeded on attempt 2: three invocations, two sleeps.
C35_Witness ==
    /\ w_pc = "returned"
    /\ attempt = 2
    /\ calls = 3
    /\ Len(sleeps) = 2
    /\ failures[1].kind = "Exception"
    /\ failures[2].kind = "JSONDecodeError"

----------------------------------------------------------------------------
(* The attempts of the Phase-1 call                                        *)

\* A text has just been handed to Phase 1's parser.
Phase1Parses ==
    /\ pc = "phase1"
    /\ Len(upstream'.parsed) = Len(upstream.parsed) + 1

\* C36: every attempt of the Phase-1 call starts from empty accumulated content, the
\* text parsed in an attempt is made of the content deltas received in that attempt
\* only, and however many attempts are made the phase-1 start chunk is followed
\* directly by the phase-1 summary chunk or the phase-1 error chunk.
C36_AttemptsStartEmpty ==
    /\ [](pc = "phase1"
             => /\ chunks = << StatusChunk(0, 1, 5 * ProgressScale, "") >>
                /\ w_pc = "running" => accumulated_content = ContentOf(upstream.events)
                /\ w_pc # "running" => accumulated_content = << >>)
    /\ [][pc = "phase1" /\ w_pc = "call"
             => accumulated_content' = << >> /\ upstream'.events = << >>]_vars
    /\ [][Phase1Parses
             => /\ upstream.parsed = << >>
                /\ upstream'.parsed[1] = ContentOf(upstream'.events)
                /\ Len(upstream'.events) <= MaxEvents + 1]_vars
    /\ [][pc = "phase1" /\ pc' # "phase1"
             => \/ chunks' = Append(chunks, StatusChunk(1, 1, 25 * ProgressScale, ""))
                \/ chunks' = Append(chunks,
                                ErrorChunk(1, "Mission structure analysis failed"))]_vars

\* The second attempt has parsed an object that came in one delta, after a first
\* attempt whose content did not parse.
C36_Witness ==
    /\ pc = "phase1"
    /\ w_pc = "returned"
    /\ calls = 2
    /\ failures[1].kind = "JSONDecodeError"
    /\ upstream.parsed = << <<"{", "k", "v", "}">> >>
    /\ Len(chunks) = 1

----------------------------------------------------------------------------
(* An invalid waypoint in the Phase-3 payload                              *)

\* The positions of the payload's waypoints that fail validation
InvalidWaypoints ==
    { i \in 1..Len(plan_data.waypoints) : ~plan_data.waypoints[i].valid }

\* The first of them
FirstInvalid == CHOOSE k \in InvalidWaypoints : \A j \in InvalidWaypoints : k <= j

\* C37: when the k-th waypoint of the Phase-3 output is the first invalid one,
\* exactly k - 1 waypoint status chunks are emitted, followed directly by one final
\* error chunk; there is no progress-95 chunk and no plan chunk.
C37_StopsAtFirstInvalid ==
    (InvalidWaypoints # {} /\ pc = "done")
       => /\ Len(WaypointChunks) = FirstInvalid - 1
          /\ Len(chunks) = 5 + FirstInvalid
          /\ \A i \in 1..(FirstInvalid - 1) :
                /\ chunks[5 + i].type = "status"
                /\ chunks[5 + i].phase = 3
                /\ chunks[5 + i].progress
                      = WaypointProgress(i, Len(plan_data.waypoints))
                /\ ~chunks[5 + i].is_final
          /\ chunks[Len(chunks)]
                = ErrorChunk(4 + FirstInvalid, "Detailed mission planning failed")
          /\ chunks[Len(chunks)].is_final
          /\ \A i \in 1..Len(chunks) :
                /\ chunks[i].type # "plan"
                /\ chunks[i].progress # 95 * ProgressScale
          /\ ~mission_plan.built

\* The third waypoint was the first invalid one: two waypoint chunks, then the error.
C37_Witness ==
    /\ pc = "done"
    /\ Len(plan_data.waypoints) = 3
    /\ plan_data.waypoints[3].valid = FALSE
    /\ InvalidWaypoints = {3}
    /\ Len(WaypointChunks) = 2
    /\ chunks[Len(chunks)].type = "error"

----------------------------------------------------------------------------
(* The debug broadcaster: main.py's debug_manager, the /ws/debug endpoint  *)
(* and the broadcast_debug tasks that debug_print schedules                *)

\* No pipeline run is under way; the manager has just been constructed.
DebugInit ==
    /\ NoPipelineRun
    /\ maps_key = TRUE
    /\ accumulated_content = << >>
    /\ extraction = NoExtraction
    /\ runs = NoRuns

debugFrame == << pc, request, openrouter_key, maps_key, chunks, sequence,
                 inner_sequence, w_pc, max_retries, base_delay, max_delay,
                 backoff_factor, attempt, delay, last_exception, calls, sleeps,
                 failures, raised, p3_calls, events, accumulated_content,
                 structure_data, geocoded_locations, loc_idx, successful_geocodes,
                 plan_data, wp_done, stream_args, mission_plan, response, extraction,
                 runs, upstream >>

\* websocket_debug_endpoint: await debug_manager.connect(websocket), that is
\* accept() and active_connections.add(websocket)
Connect(s) ==
    /\ debug_manager.sockets[s] = "new"
    /\ debug_manager' = [debug_manager EXCEPT
                           !.sockets[s] = "open",
                           !.active_connections = @ \cup {s}]
    /\ UNCHANGED debugFrame

\* The client goes away: from now on send_text on the socket raises, and the
\* endpoint's receive_text will raise.
PeerCloses(s) ==
    /\ debug_manager.sockets[s] = "open"
    /\ debug_manager' = [debug_manager EXCEPT !.sockets[s] = "closed"]
    /\ UNCHANGED debugFrame

\* The endpoint's `finally: debug_manager.disconnect(websocket)`, that is
\* active_connections.discard(websocket)
Disconnect(s) ==
    /\ debug_manager.sockets[s] = "closed"
    /\ debug_manager' = [debug_manager EXCEPT
                           !.sockets[s] = "gone",
                           !.active_connections = @ \ {s}]
    /\ UNCHANGED debugFrame

\* What `for connection in self.active_connections` does when the loop asks its
\* iterator for the next element: RuntimeError (Set changed size during iteration)
\* when the set has another size than when the iteration began, else an element not
\* yet visited, else the end of the loop.  When the set has its old size but other
\* members, an element that was added in the meantime may be passed over.
IterNext(b, active) ==
    IF Cardinality(active) # b.size THEN { [kind |-> "RuntimeError", conn |-> 0] }
    ELSE { [kind |-> "next", conn |-> c] : c \in active \ b.visited }
         \cup (IF active \ b.visited = {} \/ active # b.snapshot
                 THEN { [kind |-> "stop", conn |-> 0] } ELSE {})

\* The task created by debug_print runs broadcast_debug up to its first await:
\* `if self.active_connections:`, disconnected = set(), the iterator, and the first
\* `await connection.send_text(message_json)`.
BroadcastStart(b) ==
    /\ debug_manager.broadcasts[b].pc = "scheduled"
    /\ LET active == debug_manager.active_connections IN
       IF active = {}
         THEN debug_manager' = [debug_manager EXCEPT !.broadcasts[b].pc = "done"]
         ELSE \E c \in active :
                debug_manager' = [debug_manager EXCEPT
                    !.broadcasts[b] = [pc |-> "sending", snapshot |-> active,
                                       size |-> Cardinality(active), visited |-> {c},
                                       cur |-> c, disconnected |-> {}]]
    /\ UNCHANGED debugFrame

\* The awaited send_text returns, or raises and `except Exception` adds the
\* connection to `disconnected`; then the loop goes on to its next send, ends and
\* the connections in `disconnected` are discarded, or the iterator raises
\* RuntimeError, which leaves broadcast_debug.
SendReturns(b) ==
    /\ debug_manager.broadcasts[b].pc = "sending"
    /\ LET t == debug_manager.broadcasts[b]
           active == debug_manager.active_connections
           failed == IF debug_manager.sockets[t.cur] = "open"
                       THEN t.disconnected ELSE t.disconnected \cup {t.cur}
       IN \E n \in IterNext(t, active) :
            debug_manager' =
              IF n.kind = "RuntimeError"
                THEN [debug_manager EXCEPT
                        !.broadcasts[b] = [t EXCEPT !.pc = "raised",
                                                    !.disconnected = failed]]
              ELSE IF n.kind = "next"
                THEN [debug_manager EXCEPT
                        !.broadcasts[b] = [t EXCEPT !.cur = n.conn,
                                                    !.visited = @ \cup {n.conn},
                                                    !.disconnected = failed]]
              ELSE [debug_manager EXCEPT
                        !.broadcasts[b] = [t EXCEPT !.pc = "done",
                                                    !.disconnected = failed],
                        !.active_connections = @ \ failed]
    /\ UNCHANGED debugFrame

DebugNext ==
    \/ \E s \in Sockets : Connect(s) \/ PeerCloses(s) \/ Disconnect(s)
    \/ \E b \in Broadcasts : BroadcastStart(b) \/ SendReturns(b)

DebugSpec == DebugInit /\ [][DebugNext]_vars

\* A broadcast is suspended in a send.
Sending(b) == debug_manager.broadcasts[b].pc = "sending"

\* A broadcast is over, by return or by an exception.
Completed(b) == debug_manager.broadcasts[b].pc \in {"done", "raised"}

\* C38: broadcast_debug is safe under concurrency: while a broadcast is suspended in
\* a send, active_connections is still the set its iteration began with (no connect,
\* disconnect or other broadcast's cleanup has changed it); and when a broadcast is
\* over, every connection whose send failed during it is out of active_connections.
C38_BroadcastSafe ==
    \A b \in Broadcasts :
       /\ Sending(b)
             => debug_manager.active_connections = debug_manager.broadcasts[b].snapshot
       /\ Completed(b)
             => debug_manager.active_connections
                   \cap debug_manager.broadcasts[b].disconnected = {}

====
